---- MODULE Spec2Model ----
(***************************************************************************)
(* AutoHubble (autoscraper) as state machines: the LLM completion client   *)
(* (utils/openrouter.py, config.py), the session and its generate/test     *)
(* loop (autoscraper.py), the agents (agents/debugger.py,                  *)
(* agents/generator.py, agents/navigator.py) and the file operations of    *)
(* an action (utils/file_manager.py).                                      *)
(*                                                                         *)
(* Text is a sequence of one-character strings.  Token counts are taken    *)
(* in units of TokenUnit real tokens, so that the context lengths of       *)
(* config.py come down to sizes a text of a few dozen characters can       *)
(* exceed.                                                                 *)
(***************************************************************************)
EXTENDS Integers, Sequences, FiniteSets, TLC

\* ---------------------------------------------------------------- bounds

\* One model token stands for TokenUnit tokens of the real tokenizer.
TokenUnit == 8000

\* A caller's content is one unit of text repeated at most MaxUnits times.
MaxUnits == 3

\* ------------------------------------------------------------- config.py

\* Model.__init__: retries defaults to 3.
DefaultRetries == 3

Model(name, context_length, structured_output, pydantic_output, retries) ==
    [name |-> name,
     context_length |-> context_length \div TokenUnit,
     structured_output |-> structured_output,
     pydantic_output |-> pydantic_output,
     retries |-> retries]

MODELS ==
    ("claude-3.5-sonnet" :>
        Model("anthropic/claude-3.5-sonnet:beta", 200000, TRUE, FALSE, DefaultRetries))
 @@ ("gpt-4o" :>
        Model("openai/gpt-4o-2024-11-20", 128000, TRUE, TRUE, DefaultRetries))
 @@ ("gpt-4o-mini" :>
        Model("openai/gpt-4o-mini", 128000, TRUE, TRUE, DefaultRetries))
 @@ ("qwq" :>
        Model("qwen/qwq-32b-preview", 32000, FALSE, FALSE, DefaultRetries))
 @@ ("o1-mini" :>
        Model("openai/o1-mini", 128000, FALSE, FALSE, DefaultRetries))
 @@ ("gemini-2-flash" :>
        Model("google/gemini-2.0-flash-exp:free", 1000000, TRUE, TRUE, 5))
 @@ ("gemini-exp" :>
        Model("google/gemini-exp-1206:free", 2000000, TRUE, TRUE, DefaultRetries))
 @@ ("gemini-2-flash-thinking" :>
        Model("google/gemini-2.0-flash-thinking-exp:free", 40000, FALSE, FALSE, DefaultRetries))
 @@ ("gemini-flash-1-5" :>
        Model("google/gemini-flash-1.5", 2000000, TRUE, TRUE, DefaultRetries))
 @@ ("deepseek-v3" :>
        Model("deepseek/deepseek-chat", 64000, TRUE, FALSE, DefaultRetries))
 @@ ("llama-3.3-70b" :>
        Model("meta-llama/llama-3.3-70b-instruct", 131000, TRUE, FALSE, DefaultRetries))

MODEL_CHOICES ==
    ("navigator" :> <<"gemini-2-flash", "gpt-4o-mini", "gemini-flash-1-5", "llama-3.3-70b">>)
 @@ ("generator" :> <<"deepseek-v3", "gemini-exp", "claude-3.5-sonnet", "gpt-4o">>)
 @@ ("debugger" :> <<"claude-3.5-sonnet", "gemini-2-flash-thinking", "qwq", "o1-mini">>)
 @@ ("structurer" :> <<"gemini-flash-1-5">>)
 @@ ("summarizer" :> <<"gemini-2-flash-thinking", "gpt-4o", "o1-mini", "qwq">>)

\* Two more Model instances and a role "x" over them: a fallback list whose
\* first model has two attempts and whose second has one.
ScenarioModels ==
    ("A" :> Model("A", 128000, TRUE, TRUE, 2))
 @@ ("B" :> Model("B", 128000, TRUE, TRUE, 1))

ScenarioChoices == ("x" :> <<"A", "B">>)

Registry == MODELS @@ ScenarioModels

Choices == MODEL_CHOICES @@ ScenarioChoices

Roles == DOMAIN Choices

\* ------------------------------------------------------------------ text

Letters == {"a", "b"}

NL == "\n"

\* len(self.encoding.encode(s)): a run of letters is one token, every other
\* character is a token of its own.
Tokens(s) ==
    Cardinality({i \in 1..Len(s) :
        \/ s[i] \notin Letters
        \/ i = 1
        \/ s[i - 1] \notin Letters})

Max(a, b) == IF a >= b THEN a ELSE b

\* s[:k]
PyHead(s, k) == SubSeq(s, 1, IF k <= Len(s) THEN k ELSE Len(s))

\* s[-k:]  (s[-0:] is s[0:], the whole of s)
PyTail(s, k) == IF k = 0 THEN s ELSE SubSeq(s, Max(Len(s) - k, 0) + 1, Len(s))

\* s[k:-k]  (s[0:-0] is s[0:0], the empty text)
PyMiddle(s, k) == IF k = 0 THEN <<>> ELSE SubSeq(s, k + 1, Len(s) - k)

\* The length of the run of newlines of s that starts at i.
RECURSIVE NewlineRun(_, _)
NewlineRun(s, i) ==
    IF i <= Len(s) /\ s[i] = NL THEN 1 + NewlineRun(s, i + 1) ELSE 0

\* re.split(r"(\n{2,}|\. )", s) from position i on, with the text since the
\* last separator in cur and the chunks found so far in acc: the pattern has a
\* capturing group, so the separators are chunks too.
RECURSIVE SplitFrom(_, _, _, _)
SplitFrom(s, i, cur, acc) ==
    IF i > Len(s) THEN Append(acc, cur)
    ELSE IF NewlineRun(s, i) >= 2
         THEN SplitFrom(s, i + NewlineRun(s, i), <<>>,
                        acc \o <<cur, SubSeq(s, i, i + NewlineRun(s, i) - 1)>>)
    ELSE IF s[i] = "." /\ i < Len(s) /\ s[i + 1] = " "
         THEN SplitFrom(s, i + 2, <<>>, acc \o <<cur, <<".", " ">> >>)
    ELSE SplitFrom(s, i + 1, Append(cur, s[i]), acc)

Split(s) == SplitFrom(s, 1, <<>>, <<>>)

\* "".join(chunks)
RECURSIVE Join(_)
Join(cs) == IF cs = <<>> THEN <<>> ELSE Head(cs) \o Join(Tail(cs))

\* chunks.pop(i) leaves the list without its element i (1-based here).
Without(cs, i) == SubSeq(cs, 1, i - 1) \o SubSeq(cs, i + 1, Len(cs))

\* ------------------------------------------- _truncate_content, the numbers

\* int(max_tokens * 0.8)
AvailableTokens(max_tokens) == (max_tokens * 4) \div 5

\* int(len(content_str) * (available_tokens / content_tokens)).  The float
\* product can fall one short of the exact quotient when that is a whole
\* number; on the contents and context lengths of this model the two agree.
KeepChars(content, max_tokens) ==
    (Len(content) * AvailableTokens(max_tokens)) \div Tokens(content)

\* int(keep_chars * 0.1)
KeepEnd(content, max_tokens) == KeepChars(content, max_tokens) \div 10

\* keep_chars - 2 * keep_end
KeepMiddleChars(content, max_tokens) ==
    KeepChars(content, max_tokens) - 2 * KeepEnd(content, max_tokens)

Beginning(content, max_tokens) == PyHead(content, KeepEnd(content, max_tokens))

Ending(content, max_tokens) == PyTail(content, KeepEnd(content, max_tokens))

Middle(content, max_tokens) == PyMiddle(content, KeepEnd(content, max_tokens))

\* line 66: total_tokens > max_tokens, on the prompt and the content together
NeedsTruncation(system, content, max_tokens) ==
    Tokens(system \o content) > max_tokens

\* line 81: content_tokens > available_tokens, on the content alone
TruncationBranch(content, max_tokens) ==
    Tokens(content) > AvailableTokens(max_tokens)

\* ------------------------------------------------------------- the inputs

Units ==
    { <<"a", "b", "b", "a", "a", "b", ".", " ">>,
      <<"a", ".", " ">> }

RECURSIVE Repeat(_, _)
Repeat(u, n) == IF n = 0 THEN <<>> ELSE u \o Repeat(u, n - 1)

\* json.dumps(user_content), as handed over by the callers
Contents == {Repeat(u, n) : u \in Units, n \in 1..MaxUnits}

SystemPrompts ==
    { <<"a", " ">>,
      <<"b", ".", " ", "a", " ">> }

\* ----------------------------------------------------------------- state

VARIABLES
    model_role,       \* get_completion's argument
    system_prompt,    \* get_completion's argument
    user_content,     \* json.dumps(user_content) as the caller gave it
    content_str,      \* the local content_str, reassigned by truncation
    mi,               \* position in MODEL_CHOICES[model_role], from 1
    pc,               \* where get_completion stands
    retries,          \* _try_model's local counter
    chunks,           \* _truncate_content: the pool of middle chunks
    selected_chunks,  \* _truncate_content: the chunks accepted so far
    current_chars,    \* _truncate_content: their total length
    calls,            \* every request sent to the backend, in order
    response,         \* what get_completion returned
    raised,           \* the exceptions get_completion raised to its caller
    slept,            \* the time.sleep delays, in order
    trunc_log,        \* every _truncate_content call that rebuilt the content
    handled,          \* what the handler of the last attempt did
    g_pc,             \* where the session stands
    target_fields,    \* AutoScraper.target_fields
    base_url,         \* AutoScraper.base_url
    website_structure,  \* AutoScraper.website_structure, or "unset"
    scaffolded,       \* whether output_dir and spider_path are set
    attempt,          \* generate's local attempt
    debug_result,     \* generate's local debug_result
    debugging_history,  \* generate's local debugging_history
    gen_calls,        \* generate_spider calls of the current generate()
    test_calls,       \* test_scraper calls of the current generate()
    g_outcome,        \* how the last generate() ended
    output_dir,       \* AutoScraper.output_dir, or "unset"
    run_log,          \* every spider execution of run(), in order
    run_outcome,      \* how the last run() ended
    t_pc,             \* where test_scraper stands
    t_exec,           \* test_scraper: what became of the scrapy process
    t_items,          \* test_scraper's local items_scraped
    t_critic,         \* the success field of the result _analyze_run returned
    t_result,         \* what test_scraper returned
    t_more,           \* the critic's request for more page information
    a_pc,             \* where generate_spider stands
    a_feedback,       \* generate_spider's argument debug_result
    a_n,              \* the iterations of generate_spider's loop that are over
    previous_actions,   \* generate_spider's local previous_actions
    a_requests,       \* the action requests of this generate_spider call
    a_last,           \* the locals action and output, once both are bound
    n_pc,             \* where analyse_website stands
    n_depth,          \* the values of range(MAX_DEPTH) taken so far
    n_iter,           \* the loop variable iter (-1: not bound)
    n_urls,           \* the local urls: whose links they are, and how many
    n_copy,           \* the copy of urls that is being enumerated
    n_i,              \* the index enumerate gives next
    n_analyses,       \* len(all_page_analyses)
    n_visits,         \* the _analyze_page calls made at each depth level
    n_first,          \* how the first _analyze_page call (the start URL) ended
    n_last,           \* the last _analyze_page call: level, index, end
    n_driver,         \* the browser driver
    n_result,         \* how analyse_website ended
    fm_pc,            \* where implement_action stands
    fm_project,       \* the files of output_dir, by name
    fm_actions,       \* action.actions, the argument of implement_action
    fm_i,             \* the position of the loop in action.actions, from 1
    fm_feedbacks      \* implement_action's local feedbacks

gcVars ==
    <<model_role, system_prompt, user_content, content_str, mi, pc, retries,
      chunks, selected_chunks, current_chars, calls, response, raised, slept,
      trunc_log, handled>>

genVars ==
    <<g_pc, target_fields, base_url, website_structure, scaffolded, attempt,
      debug_result, debugging_history, gen_calls, test_calls, g_outcome>>

runVars == <<output_dir, run_log, run_outcome>>

\* The variables of the layers above get_completion and of those below the
\* session.
dbgVars == <<t_pc, t_exec, t_items, t_critic, t_result, t_more>>

actVars == <<a_pc, a_feedback, a_n, previous_actions, a_requests, a_last>>

navVars ==
    <<n_pc, n_depth, n_iter, n_urls, n_copy, n_i, n_analyses, n_visits,
      n_first, n_last, n_driver, n_result>>

fmVars == <<fm_pc, fm_project, fm_actions, fm_i, fm_feedbacks>>

outerVars == <<genVars, runVars, dbgVars, actVars, navVars, fmVars>>

innerVars == <<gcVars, dbgVars, actVars, navVars, fmVars>>

vars == <<gcVars, genVars, runVars, dbgVars, actVars, navVars, fmVars>>

NoResponse == [from |-> "", call |-> 0]

\* No attempt has been made: no handler has run.
NoAttempt == [path |-> "none", text |-> FALSE, structurer_requests |-> 0]

ModelKey == Choices[model_role][mi]

model_config == Registry[ModelKey]

max_tokens == model_config.context_length

InitCompletion ==
    /\ model_role \in Roles
    /\ system_prompt \in SystemPrompts
    /\ user_content \in Contents
    /\ content_str = user_content
    /\ mi = 1
    /\ pc = "loop"
    /\ retries = 0
    /\ chunks = <<>>
    /\ selected_chunks = <<>>
    /\ current_chars = 0
    /\ calls = <<>>
    /\ response = NoResponse
    /\ raised = <<>>
    /\ slept = <<>>
    /\ trunc_log = <<>>
    /\ handled = NoAttempt

\* --------------------------------------------------------- get_completion

\* Line 59 stepping over a model of the list.
NextModelSkips ==
    IF mi + 1 < Len(Choices[model_role])
    THEN /\ mi' = mi + 2
         /\ pc' = "loop"
         /\ raised' = raised
    ELSE /\ mi' = mi
         /\ pc' = "raised"
         /\ raised' = Append(raised, "All models failed")

\* Line 73 returning None for raising, at the end of the list.
NextModelSilent ==
    IF mi < Len(Choices[model_role])
    THEN /\ mi' = mi + 1
         /\ pc' = "loop"
         /\ raised' = raised
    ELSE /\ mi' = mi
         /\ pc' = "returned"
         /\ raised' = raised

\* After _try_model returned None (lines 70, 59, 73): the next model of the
\* list, or the exception when the list is used up.
NextModel ==
    IF mi < Len(Choices[model_role])
    THEN /\ mi' = mi + 1
         /\ pc' = "loop"
         /\ raised' = raised
    ELSE /\ mi' = mi
         /\ pc' = "raised"
         /\ raised' = Append(raised, "All models failed")

\* Line 69: _try_model starts with retries = 0 and enters its loop when the
\* model has attempts at all (lines 119-120, 136).
EnterTryModel ==
    /\ retries' = 0
    /\ IF 0 < model_config.retries
       THEN /\ pc' = "try"
            /\ UNCHANGED <<mi, raised>>
       ELSE NextModel

\* Lines 63-66: the prompt and the content fit the model's context length.
FitsContext ==
    /\ pc = "loop"
    /\ UNCHANGED outerVars
    /\ ~NeedsTruncation(system_prompt, content_str, max_tokens)
    /\ EnterTryModel
    /\ UNCHANGED <<model_role, system_prompt, user_content, content_str, chunks,
                   selected_chunks, current_chars, calls, response, slept,
                   trunc_log, handled>>

\* Lines 66-67, 77-81, 116: _truncate_content is called and leaves the content
\* as it is, the content alone being within the available tokens.
TruncateUnchanged ==
    /\ pc = "loop"
    /\ UNCHANGED outerVars
    /\ NeedsTruncation(system_prompt, content_str, max_tokens)
    /\ ~TruncationBranch(content_str, max_tokens)
    /\ EnterTryModel
    /\ UNCHANGED <<model_role, system_prompt, user_content, content_str, chunks,
                   selected_chunks, current_chars, calls, response, slept,
                   trunc_log, handled>>

\* Lines 66-67, 77-102: _truncate_content splits the middle into chunks.
TruncateBegin ==
    /\ pc = "loop"
    /\ UNCHANGED outerVars
    /\ NeedsTruncation(system_prompt, content_str, max_tokens)
    /\ TruncationBranch(content_str, max_tokens)
    /\ chunks' = Split(Middle(content_str, max_tokens))
    /\ selected_chunks' = <<>>
    /\ current_chars' = 0
    /\ pc' = "sampling"
    /\ UNCHANGED <<model_role, system_prompt, user_content, content_str, mi,
                   retries, calls, response, raised, slept, trunc_log,
                   handled>>

\* Line 104
SamplingGoesOn ==
    /\ current_chars < KeepMiddleChars(content_str, max_tokens)
    /\ chunks # <<>>

\* Line 106 taking every chunk drawn.
AcceptsAny(chunk, total, budget) == TRUE

\* Line 106
Accepts(chunk, total, budget) == total + Len(chunk) <= budget

\* Lines 104-108: one round of the sampling loop, random.randint picking i.
SampleChunk ==
    /\ pc = "sampling"
    /\ UNCHANGED outerVars
    /\ SamplingGoesOn
    /\ \E i \in 1..Len(chunks) :
          /\ chunks' = Without(chunks, i)
          /\ IF Accepts(chunks[i], current_chars,
                        KeepMiddleChars(content_str, max_tokens))
             THEN /\ selected_chunks' = Append(selected_chunks, chunks[i])
                  /\ current_chars' = current_chars + Len(chunks[i])
             ELSE UNCHANGED <<selected_chunks, current_chars>>
    /\ UNCHANGED <<model_role, system_prompt, user_content, content_str, mi, pc,
                   retries, calls, response, raised, slept, trunc_log,
                   handled>>

\* Line 112 with the two ends exchanged.
TruncatedEndsSwapped(content, limit, selected) ==
    Ending(content, limit) \o Join(selected) \o Beginning(content, limit)

\* Lines 111-112
Truncated(content, limit, selected) ==
    Beginning(content, limit) \o Join(selected) \o Ending(content, limit)

\* Lines 104, 111-116, 67, 69: the loop ends, the content is rebuilt and
\* assigned to content_str, and _try_model is entered.
TruncateEnd ==
    /\ pc = "sampling"
    /\ UNCHANGED outerVars
    /\ ~SamplingGoesOn
    /\ content_str' = Truncated(content_str, max_tokens, selected_chunks)
    /\ trunc_log' = Append(trunc_log,
            [model |-> ModelKey,
             input |-> content_str,
             keep_end |-> KeepEnd(content_str, max_tokens),
             keep_chars |-> KeepChars(content_str, max_tokens),
             output |-> content_str'])
    /\ EnterTryModel
    /\ UNCHANGED <<model_role, system_prompt, user_content, chunks,
                   selected_chunks, current_chars, calls, response, slept,
                   handled>>

\* ------------------------------------------------------------- _try_model

\* structure_response, line 190: MODELS[MODEL_CHOICES["structurer"]] looks
\* MODELS up with a list, which is no key of a dict (TypeError: unhashable
\* type), so the lookup fails before any request is sent.
StructurerLookupWorks == FALSE

\* What one attempt can come to, by the model's path:
\*   "parsed"      the handler returns a typed value
\*   "parsed_none" completions.parse returns a message whose parsed field is
\*                 None (a refusal)
\*   "text"        the unstructured path obtained free text (line 185)
\*   "transient"   APIError, APITimeoutError, RateLimitError, TypeError or
\*                 ValidationError is raised
\*   "other"       any other exception is raised (chompjs cannot parse the
\*                 text, the choices are empty, ...)
AttemptOutcomes(m) ==
    IF m.structured_output
    THEN IF m.pydantic_output
         THEN {"parsed", "parsed_none", "transient", "other"}
         ELSE {"parsed", "transient", "other"}
    ELSE {"text", "transient", "other"}

\* Line 186 with lines 188-204: what the attempt comes to once the free text
\* is handed to structure_response.
StructureResponse(o) ==
    IF o # "text" THEN o
    ELSE IF StructurerLookupWorks THEN "parsed" ELSE "transient"

\* Lines 123-126 without the json_schema branch of line 156.
HandlerPathTypedOrText(m) ==
    IF m.pydantic_output THEN "parse" ELSE "unstructured"

\* Lines 123-126, 145, 156: the handler and the call the model's flags choose.
HandlerPath(m) ==
    IF m.structured_output
    THEN IF m.pydantic_output THEN "parse" ELSE "json_schema"
    ELSE "unstructured"

\* Lines 185-204: what the handler of an attempt did: whether it obtained
\* free text, and the requests structure_response then sent to the structurer
\* model (line 194 is its only request, and line 190 comes before it).
Handled(o) ==
    [path |-> HandlerPath(model_config),
     text |-> o = "text",
     structurer_requests |-> IF o = "text" /\ StructurerLookupWorks THEN 1 ELSE 0]

\* One attempt as logged: the request sent and what the attempt came to.
Request(o) ==
    [model |-> ModelKey,
     system |-> system_prompt,
     content |-> content_str,
     outcome |-> StructureResponse(o)]

\* Line 128 left out: a failed attempt is not counted.
BumpNever(r) == r

\* Line 128 counting a failed attempt twice.
BumpTwice(r) == r + 2

\* Line 128
Bump(r) == r + 1

\* Line 131 sleeping the same two seconds after every failure.
BackoffConstant(r) == 2

\* Line 131: time.sleep(2**retries)
Backoff(r) == 2 ^ r

\* Line 129 with <= for <: one attempt too many.
RetryLeftOneMore(r, m) == r <= m.retries

\* Line 129: attempts are left on this model
RetryLeft(r, m) == r < m.retries

\* Line 70 taking whatever _try_model returned, None included.
TruthyAlways(o) == TRUE

\* Line 70 never taking the value: the loop goes on after a success.
TruthyNever(o) == FALSE

\* Line 70: `if response:`
Truthy(o) == o = "parsed"

\* Lines 120-126, 70-71, 59/73: the attempt ends without an exception and
\* _try_model returns what the handler returned.  A value is returned by
\* get_completion; None sends it on to the next model.
AttemptCompletes ==
    /\ pc = "try"
    /\ UNCHANGED outerVars
    /\ \E o \in AttemptOutcomes(model_config) :
          /\ StructureResponse(o) \in {"parsed", "parsed_none"}
          /\ calls' = Append(calls, Request(o))
          /\ handled' = Handled(o)
          /\ IF Truthy(StructureResponse(o))
             THEN /\ response' = [from |-> ModelKey, call |-> Len(calls) + 1]
                  /\ pc' = "returned"
                  /\ UNCHANGED <<mi, raised>>
             ELSE /\ response' = response
                  /\ NextModel
    /\ UNCHANGED <<model_role, system_prompt, user_content, content_str,
                   retries, chunks, selected_chunks, current_chars, slept,
                   trunc_log>>

\* Lines 127-131: a transient failure with attempts left: sleep, same model.
AttemptRetries ==
    /\ pc = "try"
    /\ UNCHANGED outerVars
    /\ \E o \in AttemptOutcomes(model_config) :
          /\ StructureResponse(o) = "transient"
          /\ RetryLeft(Bump(retries), model_config)
          /\ calls' = Append(calls, Request(o))
          /\ retries' = Bump(retries)
          /\ slept' = Append(slept, Backoff(Bump(retries)))
          /\ handled' = Handled(o)
    /\ UNCHANGED <<model_role, system_prompt, user_content, content_str, mi,
                   pc, chunks, selected_chunks, current_chars, response,
                   raised, trunc_log>>

\* Lines 127-134, 70, 59/73: the last attempt fails transiently; _try_model
\* returns None and get_completion goes to the next model.
AttemptGivesUp ==
    /\ pc = "try"
    /\ UNCHANGED outerVars
    /\ \E o \in AttemptOutcomes(model_config) :
          /\ StructureResponse(o) = "transient"
          /\ ~RetryLeft(Bump(retries), model_config)
          /\ calls' = Append(calls, Request(o))
          /\ retries' = Bump(retries)
          /\ handled' = Handled(o)
          /\ NextModel
    /\ UNCHANGED <<model_role, system_prompt, user_content, content_str,
                   chunks, selected_chunks, current_chars, response, slept,
                   trunc_log>>

\* Lines 122-127: an exception the except clause does not name leaves
\* _try_model and get_completion.
AttemptRaises ==
    /\ pc = "try"
    /\ UNCHANGED outerVars
    /\ \E o \in AttemptOutcomes(model_config) :
          /\ StructureResponse(o) = "other"
          /\ calls' = Append(calls, Request(o))
          /\ raised' = Append(raised, "other")
          /\ handled' = Handled(o)
          /\ pc' = "raised"
    /\ UNCHANGED <<model_role, system_prompt, user_content, content_str, mi,
                   retries, chunks, selected_chunks, current_chars, response,
                   slept, trunc_log>>

NextCompletion ==
    \/ FitsContext
    \/ TruncateUnchanged
    \/ TruncateBegin
    \/ SampleChunk
    \/ TruncateEnd
    \/ AttemptCompletes
    \/ AttemptRetries
    \/ AttemptGivesUp
    \/ AttemptRaises

\* No get_completion call is under way.
IdleCompletion ==
    /\ model_role = "navigator"
    /\ system_prompt = <<>>
    /\ user_content = <<>>
    /\ content_str = <<>>
    /\ mi = 1
    /\ pc = "idle"
    /\ retries = 0
    /\ chunks = <<>>
    /\ selected_chunks = <<>>
    /\ current_chars = 0
    /\ calls = <<>>
    /\ response = NoResponse
    /\ raised = <<>>
    /\ slept = <<>>
    /\ trunc_log = <<>>
    /\ handled = NoAttempt

\* ------------------------------------------------------------ autoscraper.py

\* generate, line 71
max_attempts == 20

NoResult == [success |-> FALSE, by_attempt |-> 0]

\* AutoScraper.__init__, lines 28-30; website_structure, output_dir and
\* spider_path are not attributes yet.
InitSession ==
    /\ g_pc = "idle"
    /\ target_fields = "None"
    /\ base_url = "None"
    /\ website_structure = "unset"
    /\ scaffolded = FALSE
    /\ attempt = 0
    /\ debug_result = NoResult
    /\ debugging_history = <<>>
    /\ gen_calls = 0
    /\ test_calls = 0
    /\ g_outcome = "none"
    /\ output_dir = "unset"
    /\ run_log = <<>>
    /\ run_outcome = "none"

\* No session is under way.
IdleSession == InitSession

\* Lines 44-50, with an empty or a filled dict.
SetTargetFields ==
    /\ g_pc = "idle"
    /\ UNCHANGED innerVars
    /\ UNCHANGED runVars
    /\ \E v \in {"empty", "set"} : target_fields' = v
    /\ UNCHANGED <<g_pc, base_url, website_structure, scaffolded, attempt,
                   debug_result, debugging_history, gen_calls, test_calls,
                   g_outcome>>

\* The base_url arguments: an empty string, a URL whose host has no dot
\* and a URL whose host has one.
BaseUrls == {"empty", "nodot", "url"}

\* Lines 32-42: the URLs are stored, then the navigator returns an analysis.
AnalyzeWebsite ==
    /\ g_pc = "idle"
    /\ UNCHANGED innerVars
    /\ UNCHANGED runVars
    /\ \E u \in BaseUrls : base_url' = u
    /\ website_structure' = "analysis"
    /\ UNCHANGED <<g_pc, target_fields, scaffolded, attempt, debug_result,
                   debugging_history, gen_calls, test_calls, g_outcome>>

\* Lines 32-42: the URLs are stored, then the navigator raises.
AnalyzeWebsiteRaises ==
    /\ g_pc = "idle"
    /\ UNCHANGED innerVars
    /\ UNCHANGED runVars
    /\ \E u \in BaseUrls : base_url' = u
    /\ UNCHANGED <<g_pc, target_fields, website_structure, scaffolded, attempt,
                   debug_result, debugging_history, gen_calls, test_calls,
                   g_outcome>>

\* A generate() call that ends before line 66: a new frame, whose locals
\* (and the calls counted for it) are those of no loop.
NoLocals ==
    /\ attempt' = 0
    /\ debug_result' = NoResult
    /\ debugging_history' = <<>>
    /\ gen_calls' = 0
    /\ test_calls' = 0

\* Line 61 with `and` for `or`: rejected only when both are missing.
PreconditionFailsBoth ==
    /\ target_fields \in {"None", "empty"}
    /\ base_url \in {"None", "empty"}

\* Line 61: `not self.target_fields or not self.base_url`
PreconditionFails ==
    \/ target_fields \in {"None", "empty"}
    \/ base_url \in {"None", "empty"}

\* Lines 61-62
GenerateRejected ==
    /\ g_pc = "idle"
    /\ UNCHANGED innerVars
    /\ UNCHANGED runVars
    /\ PreconditionFails
    /\ g_outcome' = "ValueError"
    /\ NoLocals
    /\ UNCHANGED <<g_pc, target_fields, base_url, website_structure, scaffolded>>

\* Lines 64, 52-57: netloc.split(".")[-2] of a host without a dot
GenerateNameFails ==
    /\ g_pc = "idle"
    /\ UNCHANGED innerVars
    /\ UNCHANGED runVars
    /\ ~PreconditionFails
    /\ base_url = "nodot"
    /\ g_outcome' = "IndexError"
    /\ NoLocals
    /\ UNCHANGED <<g_pc, target_fields, base_url, website_structure, scaffolded>>

\* Lines 64-69: output_dir is assigned, then setup_project raises (the base
\* project cannot be copied, or the target of a rename exists already);
\* spider_path is not assigned.
GenerateSetupFails ==
    /\ g_pc = "idle"
    /\ UNCHANGED innerVars
    /\ ~PreconditionFails
    /\ base_url = "url"
    /\ output_dir' = "set"
    /\ g_outcome' = "OSError"
    /\ NoLocals
    /\ UNCHANGED <<g_pc, target_fields, base_url, website_structure, scaffolded,
                   run_log, run_outcome>>

\* Lines 64-75: the project is set up and the loop is entered.
GenerateStart ==
    /\ g_pc = "idle"
    /\ UNCHANGED innerVars
    /\ ~PreconditionFails
    /\ base_url = "url"
    /\ output_dir' = "set"
    /\ UNCHANGED <<run_log, run_outcome>>
    /\ scaffolded' = TRUE
    /\ debugging_history' = <<>>
    /\ attempt' = 1
    /\ debug_result' = NoResult
    /\ gen_calls' = 0
    /\ test_calls' = 0
    /\ g_outcome' = "running"
    /\ g_pc' = IF 1 <= max_attempts THEN "generate_spider" ELSE "idle"
    /\ UNCHANGED <<target_fields, base_url, website_structure>>

\* Lines 79-85: generate_spider returns.
GenerateSpider ==
    /\ g_pc = "generate_spider"
    /\ UNCHANGED innerVars
    /\ UNCHANGED runVars
    /\ website_structure # "unset"
    /\ gen_calls' = gen_calls + 1
    /\ g_pc' = "test_scraper"
    /\ UNCHANGED <<target_fields, base_url, website_structure, scaffolded,
                   attempt, debug_result, debugging_history, test_calls,
                   g_outcome>>

\* Lines 79-85: self.website_structure is no attribute (AttributeError), or
\* generate_spider raises; generate ends with the exception.
GenerateSpiderRaises ==
    /\ g_pc = "generate_spider"
    /\ UNCHANGED innerVars
    /\ UNCHANGED runVars
    /\ IF website_structure = "unset"
       THEN /\ g_outcome' = "AttributeError"
            /\ gen_calls' = gen_calls
       ELSE /\ g_outcome' = "raised"
            /\ gen_calls' = gen_calls + 1
    /\ g_pc' = "idle"
    /\ UNCHANGED <<target_fields, base_url, website_structure, scaffolded,
                   attempt, debug_result, debugging_history, test_calls>>

\* Line 99 left out: the attempt is never counted.
NextAttemptStuck(a) == a

\* Line 99
NextAttempt(a) == a + 1

\* Lines 75, 100: the loop is over
AttemptsUsedUp(a) == a > max_attempts

\* Line 91 taking no result for a success: the loop goes on after one.
SucceededNever(r) == FALSE

\* Line 91: `if debug_result.success`
Succeeded(r) == r.success

\* Lines 88-102: test_scraper returns its result, which is appended to the
\* history; a success ends the loop, a failure counts the attempt and ends
\* the loop with an error once the attempts are used up.
AfterTest(ok) ==
    /\ test_calls' = test_calls + 1
    /\ debug_result' = [success |-> ok, by_attempt |-> attempt]
    /\ IF Succeeded(debug_result')
       THEN /\ g_pc' = "idle"
            /\ g_outcome' = "success"
            /\ attempt' = attempt
       ELSE /\ attempt' = NextAttempt(attempt)
            /\ IF AttemptsUsedUp(attempt')
               THEN /\ g_pc' = "idle"
                    /\ g_outcome' = "failed"
               ELSE /\ g_pc' = "generate_spider"
                    /\ g_outcome' = g_outcome
    /\ debugging_history' = Append(debugging_history, debug_result')
    /\ UNCHANGED <<target_fields, base_url, website_structure, scaffolded,
                   gen_calls>>

\* Lines 88-102, test_scraper returning either result.
TestScraper ==
    /\ g_pc = "test_scraper"
    /\ UNCHANGED innerVars
    /\ UNCHANGED runVars
    /\ \E ok \in BOOLEAN : AfterTest(ok)

\* Line 88: test_scraper raises (the critic's get_completion did).
TestScraperRaises ==
    /\ g_pc = "test_scraper"
    /\ UNCHANGED innerVars
    /\ UNCHANGED runVars
    /\ test_calls' = test_calls + 1
    /\ g_pc' = "idle"
    /\ g_outcome' = "raised"
    /\ UNCHANGED <<target_fields, base_url, website_structure, scaffolded,
                   attempt, debug_result, debugging_history, gen_calls>>

\* ---------------------------------------------- run() and run_spider

\* The run() calls of a session that are followed.
MaxRuns == 2

\* Lines 106-107: spider_path or output_dir is no attribute.  spider_path is
\* assigned after output_dir (lines 65, 69), so it is the one that decides.
RunRejected ==
    /\ g_pc = "idle"
    /\ UNCHANGED innerVars
    /\ ~scaffolded
    /\ run_outcome' = "ValueError"
    /\ UNCHANGED <<genVars, output_dir, run_log>>

\* What becomes of the scrapy process of run_spider:
\*   "exit_zero"     subprocess.run returns, the process ended with code 0
\*   "exit_nonzero"  subprocess.run returns, the process ended with another
\*                   code (check is not set, so nothing is raised)
\*   "launch_error"  mkdir, subprocess.run or save_logs raises
Executions == {"exit_zero", "exit_nonzero", "launch_error"}

\* run_spider, lines 30-69: the first element of the returned tuple.  Line 58
\* returns True whenever subprocess.run returned; the timeout of line 46 is
\* None, so TimeoutExpired is not raised; line 69 returns False.
RunSpiderSuccess(e) == e # "launch_error"

\* Lines 106-113: the spider is run, with the default timeout None, and a
\* failure is logged.
Run ==
    /\ g_pc = "idle"
    /\ UNCHANGED innerVars
    /\ scaffolded
    /\ Len(run_log) < MaxRuns
    /\ \E e \in Executions :
          run_log' = Append(run_log,
              [timeout |-> "None",
               execution |-> e,
               success |-> RunSpiderSuccess(e),
               error_logged |-> ~RunSpiderSuccess(e)])
    /\ run_outcome' = "returned"
    /\ UNCHANGED <<genVars, output_dir>>

NextSession ==
    \/ SetTargetFields
    \/ AnalyzeWebsite
    \/ AnalyzeWebsiteRaises
    \/ GenerateRejected
    \/ GenerateNameFails
    \/ GenerateSetupFails
    \/ RunRejected
    \/ Run
    \/ GenerateStart
    \/ GenerateSpider
    \/ GenerateSpiderRaises
    \/ TestScraper
    \/ TestScraperRaises

\* ------------------------------------------- get_completion as a callee

\* The system prompt of an agent is the rendering of a template without
\* variables (or with constants only): one fixed text.
AgentPrompt == <<"b", ".", " ", "a", " ">>

\* The contexts an agent renders: one of 16 characters in 6 tokens, with a
\* sentence end in the middle and one at the end, and one of 24 characters
\* in 12 tokens, with a sentence end in the middle.
AgentContents ==
    { <<"a", "b", "b", "a", "a", "b", ".", " ",
        "a", "b", "b", "a", "a", "b", ".", " ">>,
      <<"a", "a", "b", " ", "b", "b", "a", " ", "a", "a", "b", ".", " ",
        "b", "b", "a", " ", "a", "a", "b", " ", "b", "b", "a">> }

\* openrouter.get_completion(model_role = role, system_prompt = ...,
\* user_content = context, ...): a new frame, the context being any of the
\* agent's contents.
CallCompletion(role) ==
    /\ pc = "idle"
    /\ model_role' = role
    /\ system_prompt' = AgentPrompt
    /\ \E c \in AgentContents :
          /\ user_content' = c
          /\ content_str' = c
    /\ mi' = 1
    /\ pc' = "loop"
    /\ retries' = 0
    /\ chunks' = <<>>
    /\ selected_chunks' = <<>>
    /\ current_chars' = 0
    /\ calls' = <<>>
    /\ response' = NoResponse
    /\ raised' = <<>>
    /\ slept' = <<>>
    /\ trunc_log' = <<>>
    /\ handled' = NoAttempt

\* The caller has the value or the exception: the frame is gone.
LeaveCompletion ==
    /\ model_role' = "navigator"
    /\ system_prompt' = <<>>
    /\ user_content' = <<>>
    /\ content_str' = <<>>
    /\ mi' = 1
    /\ pc' = "idle"
    /\ retries' = 0
    /\ chunks' = <<>>
    /\ selected_chunks' = <<>>
    /\ current_chars' = 0
    /\ calls' = <<>>
    /\ response' = NoResponse
    /\ raised' = <<>>
    /\ slept' = <<>>
    /\ trunc_log' = <<>>
    /\ handled' = NoAttempt

\* ---------------------------------------------------- agents/debugger.py

\* The lines of items.json that are told apart: none, one, ..., MaxItems.
MaxItems == 2

NoTestResult == [success |-> FALSE, items_scraped |-> 0, made |-> "none"]

\* TestResult(success = ..., items_scraped = ..., recommendations = ...),
\* with the place that made it.
TestResult(success, items_scraped, made) ==
    [success |-> success, items_scraped |-> items_scraped, made |-> made]

\* The critic has asked for no page, and test_scraper has had none analyzed.
NoSupplement == [needs_more_info |-> FALSE, analyzed |-> 0]

\* No test_scraper call is under way.
IdleDebugger ==
    /\ t_pc = "idle"
    /\ t_exec = "none"
    /\ t_items = 0
    /\ t_critic = "none"
    /\ t_result = NoTestResult
    /\ t_more = NoSupplement

\* test_scraper is entered.
InitDebugger ==
    /\ t_pc = "start"
    /\ t_exec = "none"
    /\ t_items = 0
    /\ t_critic = "none"
    /\ t_result = NoTestResult
    /\ t_more = NoSupplement

\* The other layers during a step of test_scraper.
aroundDebugger == <<genVars, runVars, actVars, navVars, fmVars>>

\* Lines 53-59, 145-156: the name is read from the spider file, or it is
\* not (no `name = ` line, or the file cannot be read) and test_scraper
\* returns a failure.
TestGetSpiderName ==
    /\ t_pc = "start"
    /\ UNCHANGED <<gcVars, aroundDebugger>>
    /\ \E found \in BOOLEAN :
          IF found
          THEN /\ t_pc' = "run"
               /\ UNCHANGED t_result
          ELSE /\ t_pc' = "done"
               /\ t_result' = TestResult(FALSE, 0, "no_name")
    /\ UNCHANGED <<t_exec, t_items, t_critic, t_more>>

\* What becomes of subprocess.run(..., timeout = SPIDER_TIMEOUT):
\*   "completed"       it returns (whatever the exit code)
\*   "timeout_empty"   TimeoutExpired whose stdout is None
\*   "timeout_output"  TimeoutExpired whose stdout holds the output captured
\*                     so far as bytes, whatever `text` is (POSIX)
\*   "timeout_text"    TimeoutExpired whose stdout holds it as str (Windows,
\*                     where run() reads the output again after the kill)
\*   "error"           any other exception
TestExecutions ==
    {"completed", "timeout_empty", "timeout_output", "timeout_text", "error"}

\* Lines 86-90
TestTimeouts == {"timeout_empty", "timeout_output", "timeout_text"}

\* Lines 62-103: the spider is run.  Another exception than the timeout
\* returns a failure (92-99); after a timeout that captured output, line 103
\* adds a str to bytes and raises TypeError.
TestRunSpider ==
    /\ t_pc = "run"
    /\ UNCHANGED <<gcVars, aroundDebugger>>
    /\ \E e \in TestExecutions :
          /\ t_exec' = e
          /\ IF e = "error"
             THEN /\ t_pc' = "done"
                  /\ t_result' = TestResult(FALSE, 0, "run_error")
             ELSE /\ t_pc' = IF e = "timeout_output" THEN "raised" ELSE "logs"
                  /\ UNCHANGED t_result
    /\ UNCHANGED <<t_items, t_critic, t_more>>

\* Line 106: save_logs raises (mkdir or write_text does).
TestSaveLogsRaises ==
    /\ t_pc = "logs"
    /\ UNCHANGED <<gcVars, aroundDebugger>>
    /\ t_pc' = "raised"
    /\ UNCHANGED <<t_exec, t_items, t_critic, t_result, t_more>>

\* Lines 106-109, 158-167: the logs are saved and the lines of items.json
\* counted, 0 standing for no file and for a file that cannot be read too.
TestCountItems ==
    /\ t_pc = "logs"
    /\ UNCHANGED <<gcVars, aroundDebugger>>
    /\ \E n \in 0..MaxItems : t_items' = n
    /\ t_pc' = "analyze"
    /\ UNCHANGED <<t_exec, t_critic, t_result, t_more>>

\* Lines 112, 120-142: _analyze_run asks the debugger role.
TestAnalyzeRun ==
    /\ t_pc = "analyze"
    /\ UNCHANGED aroundDebugger
    /\ CallCompletion("debugger")
    /\ t_pc' = "critic"
    /\ UNCHANGED <<t_exec, t_items, t_critic, t_result, t_more>>

\* Lines 114-116 left out: the critic's verdict stands.
KeepVerdict(result, items_scraped) == result

\* Lines 114-116: no item counted makes the result a failure.
ForceFailure(result, items_scraped) ==
    IF items_scraped = 0 THEN [result EXCEPT !.success = FALSE] ELSE result

\* Lines 112-118: get_completion returns the critic's TestResult, with its
\* own success and items_scraped fields, and test_scraper returns it after
\* lines 114-116.  The reply may name a page the critic wants analyzed
\* (needs_more_info, url_to_analyze); the TestResult of lines 18-23 has no
\* such field, nothing reads the request, and no page is analyzed for it.
TestCriticReturns ==
    /\ t_pc = "critic"
    /\ pc = "returned"
    /\ UNCHANGED aroundDebugger
    /\ LeaveCompletion
    /\ \E verdict \in BOOLEAN, reported \in 0..MaxItems :
          /\ t_critic' = IF verdict THEN "success" ELSE "failure"
          /\ t_result' = ForceFailure(TestResult(verdict, reported, "critic"),
                                      t_items)
    /\ \E asks \in BOOLEAN :
          t_more' = [needs_more_info |-> asks, analyzed |-> t_more.analyzed]
    /\ t_pc' = "done"
    /\ UNCHANGED <<t_exec, t_items>>

\* Line 112: get_completion raises, and so does test_scraper.
TestCriticRaises ==
    /\ t_pc = "critic"
    /\ pc = "raised"
    /\ UNCHANGED aroundDebugger
    /\ LeaveCompletion
    /\ t_pc' = "raised"
    /\ UNCHANGED <<t_exec, t_items, t_critic, t_result, t_more>>

NextDebugger ==
    \/ TestGetSpiderName
    \/ TestRunSpider
    \/ TestSaveLogsRaises
    \/ TestCountItems
    \/ TestAnalyzeRun
    \/ TestCriticReturns
    \/ TestCriticRaises

\* ------------------------------------------------ utils/file_manager.py

\* The file that the operations of an action name (output_dir / action.file):
\* absent, or present with its content, the pieces written to it in order.
Absent == [exists |-> FALSE, content |-> <<>>]

Present(content) == [exists |-> TRUE, content |-> content]

\* The file as an action finds it: not there, or there from the base project
\* or from an earlier action.
FilesBefore == {Absent, Present(<<"old">>)}

\* models.py, line 131: FileAction.action_type
ActionTypes == {"create", "overwrite", "delete", "append"}

\* What a handler returns and leaves: the success field of its
\* ActionExecutionFeedBack, and the file.
Skipped(file) == [success |-> FALSE, file |-> file]

Done(file) == [success |-> TRUE, file |-> file]

\* Lines 121-138 writing the content whether the file exists or not.
HandleCreateActionClobbers(file) == Done(Present(<<"new">>))

\* Lines 121-138: _handle_create_action
HandleCreateAction(file) ==
    IF file.exists THEN Skipped(file) ELSE Done(Present(<<"new">>))

\* Lines 166-172 as unlink(missing_ok=True): a missing file counts as deleted.
HandleDeleteActionMissingOk(file) == Done(Absent)

\* Lines 163-178: _handle_delete_action
HandleDeleteAction(file) ==
    IF ~file.exists THEN Skipped(file) ELSE Done(Absent)

\* Lines 180-194: _handle_overwrite_action
HandleOverwriteAction(file) ==
    IF ~file.exists THEN Skipped(file) ELSE Done(Present(<<"new">>))

\* Lines 196-211: _handle_append_action
HandleAppendAction(file) ==
    IF ~file.exists THEN Skipped(file)
    ELSE Done(Present(Append(file.content, "new")))

\* Lines 217-226: the handler of the operation's action_type.  The types
\* are those of the Literal; "edit" and the else branch are not among them.
HandleFileAction(action_type, file) ==
    CASE action_type = "create" -> HandleCreateAction(file)
      [] action_type = "delete" -> HandleDeleteAction(file)
      [] action_type = "overwrite" -> HandleOverwriteAction(file)
      [] action_type = "append" -> HandleAppendAction(file)

\* Lines 215-235 leaving the loop at the first operation that fails.
RECURSIVE ImplementActionStopsAtFailure(_, _)
ImplementActionStopsAtFailure(file, actions) ==
    IF actions = <<>> THEN [feedbacks |-> <<>>, file |-> file]
    ELSE LET first == HandleFileAction(Head(actions), file)
             rest == ImplementActionStopsAtFailure(first.file, Tail(actions))
         IN  IF first.success
             THEN [feedbacks |-> <<first.success>> \o rest.feedbacks,
                   file |-> rest.file]
             ELSE [feedbacks |-> <<first.success>>, file |-> first.file]

\* Lines 213-235: implement_action applies the operations in order, each to
\* the file as the one before left it, and returns the feedbacks in that
\* order (their success fields here), with the file as it is in the end.
RECURSIVE ImplementAction(_, _)
ImplementAction(file, actions) ==
    IF actions = <<>> THEN [feedbacks |-> <<>>, file |-> file]
    ELSE LET first == HandleFileAction(Head(actions), file)
             rest == ImplementAction(first.file, Tail(actions))
         IN  [feedbacks |-> <<first.success>> \o rest.feedbacks,
              file |-> rest.file]

\* --------------------------------------------------- agents/generator.py

\* config.py, line 164
MAX_ACTIONS == 20

\* The file operations of one action that are told apart: none, ..., MaxOps.
MaxOps == 2

\* action.actions: the action types of the operations of one action.
ActionLists == UNION {[1..k -> ActionTypes] : k \in 0..MaxOps}

NoAction ==
    [is_final |-> FALSE, output |-> <<>>, bound |-> FALSE, actions |-> <<>>,
     file |-> Absent]

\* ------------------- implement_action on a project of several files

\* The files the operations of an action can name (FileAction.file).
FileNames == {"spider.py", "items.py"}

\* output_dir as implement_action finds it: each file there or not.
Projects == [FileNames -> FilesBefore]

\* models.py, lines 127-132: a FileAction, by its type and the file it names.
FileActions == [action_type : ActionTypes, file : FileNames]

\* models.py, line 138: GeneratorAction.actions
FileActionLists == UNION {[1..k -> FileActions] : k \in 0..MaxOps}

\* No implement_action call is followed.
IdleFileManager ==
    /\ fm_pc = "idle"
    /\ fm_project = [f \in FileNames |-> Absent]
    /\ fm_actions = <<>>
    /\ fm_i = 1
    /\ fm_feedbacks = <<>>

\* Lines 213-215: implement_action(output_dir, action) is entered.
InitFileManager ==
    /\ fm_pc = "loop"
    /\ fm_project \in Projects
    /\ fm_actions \in FileActionLists
    /\ fm_i = 1
    /\ fm_feedbacks = <<>>

\* The other layers during a step of implement_action.
aroundFileManager == <<gcVars, genVars, runVars, dbgVars, actVars, navVars>>

\* Lines 216-226: the next operation is handled, on the file it names, and
\* its feedback is appended.
ImplementNext ==
    /\ fm_pc = "loop"
    /\ UNCHANGED aroundFileManager
    /\ fm_i <= Len(fm_actions)
    /\ LET file_action == fm_actions[fm_i]
           handled_as == HandleFileAction(file_action.action_type,
                                          fm_project[file_action.file])
       IN  /\ fm_project' = [fm_project EXCEPT ![file_action.file] = handled_as.file]
           /\ fm_feedbacks' = Append(fm_feedbacks, handled_as.success)
    /\ fm_i' = fm_i + 1
    /\ UNCHANGED <<fm_pc, fm_actions>>

\* Lines 133, 172, 189, 205: the write or the unlink of a handler that found
\* the file as it needs it raises (the content of the operation is None, the
\* file system refuses), and so does implement_action.
ImplementRaises ==
    /\ fm_pc = "loop"
    /\ UNCHANGED aroundFileManager
    /\ fm_i <= Len(fm_actions)
    /\ HandleFileAction(fm_actions[fm_i].action_type,
                        fm_project[fm_actions[fm_i].file]).success
    /\ fm_pc' = "raised"
    /\ UNCHANGED <<fm_project, fm_actions, fm_i, fm_feedbacks>>

\* Lines 216, 235: the operations are used up and feedbacks is returned.
ImplementReturns ==
    /\ fm_pc = "loop"
    /\ UNCHANGED aroundFileManager
    /\ fm_i > Len(fm_actions)
    /\ fm_pc' = "done"
    /\ UNCHANGED <<fm_project, fm_actions, fm_i, fm_feedbacks>>

NextFileManager ==
    \/ ImplementNext
    \/ ImplementRaises
    \/ ImplementReturns

\* No generate_spider call is under way.
IdleGenerator ==
    /\ a_pc = "idle"
    /\ a_feedback = NoResult
    /\ a_n = 0
    /\ previous_actions = <<>>
    /\ a_requests = <<>>
    /\ a_last = NoAction

\* Lines 51-52: generate_spider(..., debug_result = feedback, ...) is entered.
EnterGenerateSpider(feedback) ==
    /\ a_pc' = IF 0 < MAX_ACTIONS THEN "loop" ELSE "done"
    /\ a_feedback' = feedback
    /\ a_n' = 0
    /\ previous_actions' = <<>>
    /\ a_requests' = <<>>
    /\ a_last' = NoAction

\* generate_spider is entered, without a debug_result or with the result of
\* a test that failed.
InitGenerator ==
    /\ a_pc = "loop"
    /\ a_feedback \in {NoResult, [success |-> FALSE, by_attempt |-> 1]}
    /\ a_n = 0
    /\ previous_actions = <<>>
    /\ a_requests = <<>>
    /\ a_last = NoAction

\* The other layers during a step of generate_spider.
aroundGenerator == <<genVars, runVars, dbgVars, navVars, fmVars>>

\* Lines 53-60, 84-114: _get_action renders the context, with debug_result
\* and previous_actions in it, and asks the generator role.  action and
\* output stay bound to the previous action until the call is back; nothing
\* reads them, and they are taken as unbound here.
GetAction ==
    /\ a_pc = "loop"
    /\ UNCHANGED aroundGenerator
    /\ CallCompletion("generator")
    /\ a_requests' = Append(a_requests,
            [feedback |-> a_feedback, memory |-> Len(previous_actions)])
    /\ a_last' = NoAction
    /\ a_pc' = "awaiting"
    /\ UNCHANGED <<a_feedback, a_n, previous_actions>>

\* Lines 84-106: the rendering raises before the request is sent (a template
\* is missing; line 97 unpacks what render returned as a mapping, which
\* raises TypeError for a str), and generate_spider raises.
GetActionRenderRaises ==
    /\ a_pc = "loop"
    /\ UNCHANGED <<gcVars, aroundGenerator>>
    /\ a_pc' = "raised"
    /\ UNCHANGED <<a_feedback, a_n, previous_actions, a_requests, a_last>>

\* Line 109: get_completion raises, and so does generate_spider.
GetActionRaises ==
    /\ a_pc = "awaiting"
    /\ pc = "raised"
    /\ UNCHANGED aroundGenerator
    /\ LeaveCompletion
    /\ a_pc' = "raised"
    /\ UNCHANGED <<a_feedback, a_n, previous_actions, a_requests, a_last>>

\* Lines 53, 109-116: get_completion returns the action.  What the action
\* holds is drawn where it is read, on line 61.
GetActionReturns ==
    /\ a_pc = "awaiting"
    /\ pc = "returned"
    /\ UNCHANGED aroundGenerator
    /\ LeaveCompletion
    /\ a_pc' = "implement"
    /\ UNCHANGED <<a_feedback, a_n, previous_actions, a_requests, a_last>>

\* Line 61: implement_action raises (a write fails, or an operation has no
\* content: write_text(None) is a TypeError), and so does generate_spider.
ImplementActionRaises ==
    /\ a_pc = "implement"
    /\ UNCHANGED <<gcVars, aroundGenerator>>
    /\ a_pc' = "raised"
    /\ UNCHANGED <<a_feedback, a_n, previous_actions, a_requests, a_last>>

\* any([fb.success for fb in output])
AnySuccess(output) == \E i \in 1..Len(output) : output[i]

\* Line 69 without the test: the loop runs to MAX_ACTIONS.
StopsNever(is_final, output) == FALSE

\* Line 69 without the outcomes: a final action stops the loop.
StopsOnFinal(is_final, output) == is_final

\* Line 69
Stops(is_final, output) == is_final /\ AnySuccess(output)

\* Line 52 with one more round
MoreActionsOneMore(n) == n <= MAX_ACTIONS

\* Line 52: range(MAX_ACTIONS) has another element after n iterations
MoreActions(n) == n < MAX_ACTIONS

\* Lines 61-70: implement_action applies the operations of the action to
\* the file as it is found and returns their outcomes, the pair is appended
\* to previous_actions, and the loop ends on line 69-70 or when the range is
\* used up.
ApplyAction ==
    /\ a_pc = "implement"
    /\ UNCHANGED <<gcVars, aroundGenerator>>
    /\ \E is_final \in BOOLEAN, actions \in ActionLists, file \in FilesBefore :
          LET output == ImplementAction(file, actions).feedbacks
          IN  /\ a_last' = [is_final |-> is_final, output |-> output,
                            bound |-> TRUE, actions |-> actions, file |-> file]
              /\ a_pc' = IF Stops(is_final, output) THEN "done"
                         ELSE IF MoreActions(a_n + 1) THEN "loop"
                         ELSE "done"
    /\ previous_actions' = Append(previous_actions, [n |-> a_n + 1])
    /\ a_n' = a_n + 1
    /\ UNCHANGED <<a_feedback, a_requests>>

NextGenerator ==
    \/ GetAction
    \/ GetActionRenderRaises
    \/ GetActionRaises
    \/ GetActionReturns
    \/ ImplementActionRaises
    \/ ApplyAction

\* --------------------------------------------------- agents/navigator.py

\* config.py, lines 158-159
MAX_DEPTH == 3

MAX_LINKS == 5

\* The longest links_to_follow a page analysis comes with.
MaxLinksFound == 7

\* len(page_analysis.links_to_follow): no link, one, or the longest list.
LinkCounts == {0, 1, MaxLinksFound}

\* A list of URLs: the page whose links_to_follow it is (level -1 for the
\* list [start_url]) and its length.
Urls(level, index, len) == [level |-> level, index |-> index, len |-> len]

StartUrls == Urls(-1, 0, 1)

NoVisit == [level |-> -1, index |-> 0, end |-> "none"]

\* No analyse_website call is under way.
IdleNavigator ==
    /\ n_pc = "idle"
    /\ n_depth = 0
    /\ n_iter = -1
    /\ n_urls = StartUrls
    /\ n_copy = StartUrls
    /\ n_i = 0
    /\ n_analyses = 0
    /\ n_visits = [d \in 0..(MAX_DEPTH - 1) |-> 0]
    /\ n_first = "none"
    /\ n_last = NoVisit
    /\ n_driver = "none"
    /\ n_result = "none"

\* analyse_website(start_url) or analyze_specific_page(url, instructions)
\* is entered.
InitNavigator ==
    /\ n_pc \in {"entry", "specific_entry"}
    /\ n_depth = 0
    /\ n_iter = -1
    /\ n_urls = StartUrls
    /\ n_copy = StartUrls
    /\ n_i = 0
    /\ n_analyses = 0
    /\ n_visits = [d \in 0..(MAX_DEPTH - 1) |-> 0]
    /\ n_first = "none"
    /\ n_last = NoVisit
    /\ n_driver = "none"
    /\ n_result = "none"

\* The other layers during a step of analyse_website.
aroundNavigator == <<gcVars, genVars, runVars, dbgVars, actVars, fmVars>>

\* Lines 160-162: the driver is started, or driver.start() raises.
NavStart ==
    /\ n_pc = "entry"
    /\ UNCHANGED aroundNavigator
    /\ \E started \in BOOLEAN :
          IF started
          THEN /\ n_driver' = "started"
               /\ n_pc' = "depth"
               /\ n_result' = n_result
          ELSE /\ n_driver' = n_driver
               /\ n_pc' = "raised"
               /\ n_result' = "driver_error"
    /\ UNCHANGED <<n_depth, n_iter, n_urls, n_copy, n_i, n_analyses, n_visits,
                   n_first, n_last>>

\* Lines 164-167: range(MAX_DEPTH) gives its next value to iter; with no URL
\* the loop is left, else a copy of urls is enumerated.
NavNextDepth ==
    /\ n_pc = "depth"
    /\ UNCHANGED aroundNavigator
    /\ n_depth < MAX_DEPTH
    /\ n_iter' = n_depth
    /\ n_depth' = n_depth + 1
    /\ n_copy' = n_urls
    /\ n_i' = 0
    /\ n_pc' = IF n_urls.len = 0 THEN "synth" ELSE "page"
    /\ UNCHANGED <<n_urls, n_analyses, n_visits, n_first, n_last, n_driver,
                   n_result>>

\* Line 164: range(MAX_DEPTH) is used up.
NavDepthsDone ==
    /\ n_pc = "depth"
    /\ UNCHANGED aroundNavigator
    /\ n_depth >= MAX_DEPTH
    /\ n_pc' = "synth"
    /\ UNCHANGED <<n_depth, n_iter, n_urls, n_copy, n_i, n_analyses, n_visits,
                   n_first, n_last, n_driver, n_result>>

\* Line 168
LinksCut(i) == i > MAX_LINKS

\* Lines 167-169: the copy is used up, or the index is beyond MAX_LINKS.
NavLevelDone ==
    /\ n_pc = "page"
    /\ UNCHANGED aroundNavigator
    /\ \/ n_i >= n_copy.len
       \/ LinksCut(n_i)
    /\ n_pc' = "depth"
    /\ UNCHANGED <<n_depth, n_iter, n_urls, n_copy, n_i, n_analyses, n_visits,
                   n_first, n_last, n_driver, n_result>>

\* How one _analyze_page call ends:
\*   "analyzed"    a PageAnalysis is returned
\*   "not_loaded"  None is returned: the URL is invalid (74-76), driver.get
\*                 raised (81-85) or the analysis is empty (99-101)
\*   "raised"      an exception leaves _analyze_page (get_completion raised,
\*                 the page source could not be parsed, ...)
PageEnds == {"analyzed", "not_loaded", "raised"}

\* Lines 171-177 with the list of URLs emptied by a page that failed.
UrlsAfterCleared(urls, end, level, index, links) ==
    IF end = "analyzed" THEN Urls(level, index, links) ELSE Urls(level, index, 0)

\* Lines 171-177: urls after the _analyze_page call on URL index of level;
\* line 174 assigns the links_to_follow of a PageAnalysis.
UrlsAfter(urls, end, level, index, links) ==
    IF end = "analyzed" THEN Urls(level, index, links) ELSE urls

\* Lines 167-177: the next URL of the copy is analyzed.  A PageAnalysis is
\* appended and its links_to_follow become urls; None and an exception
\* (caught on line 175) leave both as they are.
NavAnalyzePage ==
    /\ n_pc = "page"
    /\ UNCHANGED aroundNavigator
    /\ n_i < n_copy.len
    /\ ~LinksCut(n_i)
    /\ \E end \in PageEnds, links \in LinkCounts :
          /\ end # "analyzed" => links = 0
          /\ n_last' = [level |-> n_iter, index |-> n_i, end |-> end]
          /\ n_first' = IF n_first = "none" THEN end ELSE n_first
          /\ n_analyses' = IF end = "analyzed" THEN n_analyses + 1 ELSE n_analyses
          /\ n_urls' = UrlsAfter(n_urls, end, n_iter, n_i, links)
    /\ n_visits' = [n_visits EXCEPT ![n_iter] = @ + 1]
    /\ n_i' = n_i + 1
    /\ UNCHANGED <<n_pc, n_depth, n_iter, n_copy, n_driver, n_result>>

\* ChromeDriver.quit left out: the browser keeps running.
DriverQuitSkipped(driver) == driver

\* chrome_driver.py, lines 55-58: quit() quits the driver there is, be it
\* quit already.
DriverQuit(driver) ==
    CASE driver = "started" -> "quit"
      [] driver = "quit" -> "quit_again"
      [] OTHER -> driver

\* Lines 180, 187-189: the synthesis returns, the driver is quit and the
\* analysis is returned.
NavSynthesize ==
    /\ n_pc = "synth"
    /\ UNCHANGED aroundNavigator
    /\ n_driver' = DriverQuit(n_driver)
    /\ n_result' = "analysis"
    /\ n_pc' = "done"
    /\ UNCHANGED <<n_depth, n_iter, n_urls, n_copy, n_i, n_analyses, n_visits,
                   n_first, n_last>>

\* Lines 181-189 with a logged exception followed by a return of nothing.
SynthesisFailedQuietly(iter) ==
    IF iter = 0
    THEN [pc |-> "raised", result |-> "synthesis_error"]
    ELSE [pc |-> "done", result |-> "none"]

\* Lines 181-189: how analyse_website ends after the synthesis raised.  With
\* iter = 0 the exception is raised again; else it is logged, and line 189
\* reads analysis, which was never bound (UnboundLocalError).
SynthesisFailed(iter) ==
    IF iter = 0
    THEN [pc |-> "raised", result |-> "synthesis_error"]
    ELSE [pc |-> "raised", result |-> "UnboundLocalError"]

\* Lines 180-189: the synthesis raises.  The driver is quit on either path.
NavSynthesizeRaises ==
    /\ n_pc = "synth"
    /\ UNCHANGED aroundNavigator
    /\ n_driver' = DriverQuit(n_driver)
    /\ n_result' = SynthesisFailed(n_iter).result
    /\ n_pc' = SynthesisFailed(n_iter).pc
    /\ UNCHANGED <<n_depth, n_iter, n_urls, n_copy, n_i, n_analyses, n_visits,
                   n_first, n_last>>

\* Lines 219-220: analyze_specific_page starts the driver, or
\* driver.start() raises.
SpecificStart ==
    /\ n_pc = "specific_entry"
    /\ UNCHANGED aroundNavigator
    /\ \E started \in BOOLEAN :
          IF started
          THEN /\ n_driver' = "started"
               /\ n_pc' = "specific_page"
               /\ n_result' = n_result
          ELSE /\ n_driver' = n_driver
               /\ n_pc' = "raised"
               /\ n_result' = "driver_error"
    /\ UNCHANGED <<n_depth, n_iter, n_urls, n_copy, n_i, n_analyses, n_visits,
                   n_first, n_last>>

\* Lines 221-226 with a finally clause that only quits the driver: the
\* analysis is returned, and an exception of the page analysis propagates.
SpecificPageEndsPlain(end) ==
    CASE end = "analyzed" -> [pc |-> "specific_done", result |-> "page_analysis"]
      [] end = "not_loaded" -> [pc |-> "specific_done", result |-> "None"]
      [] end = "raised" -> [pc |-> "raised", result |-> "page_error"]

\* Lines 221-226: how analyze_specific_page ends after its _analyze_page
\* call; `return None` in the finally clause replaces the value of line 221
\* and discards an exception under way, and line 226 is never reached.
SpecificPageEnds(end) == [pc |-> "specific_done", result |-> "None"]

\* Lines 221-224: the page is analyzed, the driver is quit and
\* analyze_specific_page returns.
SpecificAnalyzePage ==
    /\ n_pc = "specific_page"
    /\ UNCHANGED aroundNavigator
    /\ \E end \in PageEnds :
          /\ n_last' = [level |-> 0, index |-> 0, end |-> end]
          /\ n_pc' = SpecificPageEnds(end).pc
          /\ n_result' = SpecificPageEnds(end).result
    /\ n_driver' = DriverQuit(n_driver)
    /\ UNCHANGED <<n_depth, n_iter, n_urls, n_copy, n_i, n_analyses, n_visits,
                   n_first>>

NextNavigator ==
    \/ SpecificStart
    \/ SpecificAnalyzePage
    \/ NavStart
    \/ NavNextDepth
    \/ NavDepthsDone
    \/ NavLevelDone
    \/ NavAnalyzePage
    \/ NavSynthesize
    \/ NavSynthesizeRaises

\* ------------------------- generate() with the calls of its agents

\* The session when generate() is called after set_target_fields and
\* analyze_website.
ReadySession ==
    /\ g_pc = "idle"
    /\ target_fields = "set"
    /\ base_url = "url"
    /\ website_structure = "analysis"
    /\ scaffolded = FALSE
    /\ attempt = 0
    /\ debug_result = NoResult
    /\ debugging_history = <<>>
    /\ gen_calls = 0
    /\ test_calls = 0
    /\ g_outcome = "none"
    /\ output_dir = "unset"
    /\ run_log = <<>>
    /\ run_outcome = "none"

\* Lines 59-75: the one generate() call that is followed.
CallGenerate ==
    /\ g_outcome = "none"
    /\ GenerateStart

\* Line 84 passing no feedback at all.
PassedNone(result) == NoResult

\* Line 84: debug_result = debug_result
Passed(result) == result

\* Lines 79-85: generate_spider is called with the local debug_result.
CallGenerateSpider ==
    /\ g_pc = "generate_spider"
    /\ a_pc = "idle"
    /\ EnterGenerateSpider(Passed(debug_result))
    /\ g_pc' = "in_generate_spider"
    /\ UNCHANGED <<target_fields, base_url, website_structure, scaffolded,
                   attempt, debug_result, debugging_history, gen_calls,
                   test_calls, g_outcome>>
    /\ UNCHANGED <<gcVars, runVars, dbgVars, navVars, fmVars>>

\* The frame of a finished generate_spider call is given up.
LeaveGenerateSpider ==
    /\ a_pc' = "idle"
    /\ a_feedback' = NoResult
    /\ a_n' = 0
    /\ previous_actions' = <<>>
    /\ a_requests' = <<>>
    /\ a_last' = NoAction

\* Lines 79-88: generate_spider returns and the test comes next.
GenerateSpiderReturns ==
    /\ g_pc = "in_generate_spider"
    /\ a_pc = "done"
    /\ LeaveGenerateSpider
    /\ gen_calls' = gen_calls + 1
    /\ g_pc' = "test_scraper"
    /\ UNCHANGED <<target_fields, base_url, website_structure, scaffolded,
                   attempt, debug_result, debugging_history, test_calls,
                   g_outcome>>
    /\ UNCHANGED <<gcVars, runVars, dbgVars, navVars, fmVars>>

\* Lines 79-85: generate_spider raises, and so does generate.
GenerateSpiderAborts ==
    /\ g_pc = "in_generate_spider"
    /\ a_pc = "raised"
    /\ LeaveGenerateSpider
    /\ gen_calls' = gen_calls + 1
    /\ g_pc' = "idle"
    /\ g_outcome' = "raised"
    /\ UNCHANGED <<target_fields, base_url, website_structure, scaffolded,
                   attempt, debug_result, debugging_history, test_calls>>
    /\ UNCHANGED <<gcVars, runVars, dbgVars, navVars, fmVars>>

\* Line 88: test_scraper is called.
CallTestScraper ==
    /\ g_pc = "test_scraper"
    /\ t_pc = "idle"
    /\ t_pc' = "start"
    /\ g_pc' = "in_test_scraper"
    /\ UNCHANGED <<t_exec, t_items, t_critic, t_result, t_more>>
    /\ UNCHANGED <<target_fields, base_url, website_structure, scaffolded,
                   attempt, debug_result, debugging_history, gen_calls,
                   test_calls, g_outcome>>
    /\ UNCHANGED <<gcVars, runVars, actVars, navVars, fmVars>>

\* The frame of a finished test_scraper call is given up.
LeaveTestScraper ==
    /\ t_pc' = "idle"
    /\ t_exec' = "none"
    /\ t_items' = 0
    /\ t_critic' = "none"
    /\ t_result' = NoTestResult
    /\ t_more' = NoSupplement

\* Lines 88-102: test_scraper returns its result.
TestScraperReturns ==
    /\ g_pc = "in_test_scraper"
    /\ t_pc = "done"
    /\ LeaveTestScraper
    /\ AfterTest(t_result.success)
    /\ UNCHANGED <<gcVars, runVars, actVars, navVars, fmVars>>

\* Line 88: test_scraper raises, and so does generate.
TestScraperAborts ==
    /\ g_pc = "in_test_scraper"
    /\ t_pc = "raised"
    /\ LeaveTestScraper
    /\ test_calls' = test_calls + 1
    /\ g_pc' = "idle"
    /\ g_outcome' = "raised"
    /\ UNCHANGED <<target_fields, base_url, website_structure, scaffolded,
                   attempt, debug_result, debugging_history, gen_calls>>
    /\ UNCHANGED <<gcVars, runVars, actVars, navVars, fmVars>>

NextGenerateCalls ==
    \/ CallGenerate
    \/ CallGenerateSpider
    \/ GenerateSpiderReturns
    \/ GenerateSpiderAborts
    \/ CallTestScraper
    \/ TestScraperReturns
    \/ TestScraperAborts

\* ------------------------------------------------- claims on get_completion

Fallbacks == Choices[model_role]

\* The position of model k in the role's fallback list.
Pos(k) == CHOOSE i \in 1..Len(Fallbacks) : Fallbacks[i] = k

\* The attempts made on model k, and those among the first n attempts.
CallsOn(k) == {i \in 1..Len(calls) : calls[i].model = k}

CallsOnUpTo(k, n) == {i \in 1..n : calls[i].model = k}

\* The attempts on model k that failed with a transient error.
FailedOn(k) == {i \in CallsOn(k) : calls[i].outcome = "transient"}

FailedOnUpTo(k, n) == {i \in CallsOnUpTo(k, n) : calls[i].outcome = "transient"}

RetriesOf(k) == Registry[k].retries

ContextOf(k) == Registry[k].context_length

\* C1: once an attempt returns a result, get_completion returns that result
\* at once: the attempt is the last request ever sent, no request goes to a
\* later model of the list, and when the first model succeeds no other model
\* is invoked at all.
C1_FirstSuccessWins ==
    \A i \in 1..Len(calls) :
        calls[i].outcome = "parsed" =>
            /\ i = Len(calls)
            /\ pc = "returned"
            /\ response = [from |-> calls[i].model, call |-> i]
            /\ \A j \in 1..Len(calls) : Pos(calls[j].model) <= Pos(calls[i].model)
            /\ calls[i].model = Fallbacks[1] =>
                  \A j \in 1..Len(calls) : calls[j].model = Fallbacks[1]

\* The first model of a longer list succeeds on a retry.
C1_Witness ==
    /\ pc = "returned"
    /\ Len(Fallbacks) > 1
    /\ response.from = Fallbacks[1]
    /\ Len(calls) >= 2

C3_Original ==
    /\ \A k \in DOMAIN Registry : Cardinality(CallsOn(k)) <= RetriesOf(k)
    /\ \A i \in 1..(Len(calls) - 1) :
          /\ (/\ calls[i].outcome = "transient"
              /\ Cardinality(CallsOnUpTo(calls[i].model, i)) < RetriesOf(calls[i].model))
                => calls[i + 1].model = calls[i].model
          /\ calls[i + 1].model # calls[i].model =>
                Cardinality(FailedOn(calls[i].model)) = RetriesOf(calls[i].model)

\* C3, amended: as stated, but another model is tried after the current one
\* has failed model.retries times or after an attempt on it returned an empty
\* result.
C3_LocalRetry ==
    /\ \A k \in DOMAIN Registry : Cardinality(CallsOn(k)) <= RetriesOf(k)
    /\ \A i \in 1..(Len(calls) - 1) :
          /\ (/\ calls[i].outcome = "transient"
              /\ Cardinality(CallsOnUpTo(calls[i].model, i)) < RetriesOf(calls[i].model))
                => calls[i + 1].model = calls[i].model
          /\ calls[i + 1].model # calls[i].model =>
                \/ Cardinality(FailedOn(calls[i].model)) = RetriesOf(calls[i].model)
                \/ calls[i].outcome = "parsed_none"

\* A model has failed all its attempts, each after the other, and the next
\* model has been tried.
C3_Witness ==
    \E i \in 1..(Len(calls) - 1) :
        /\ calls[i + 1].model # calls[i].model
        /\ Cardinality(FailedOn(calls[i].model)) = RetriesOf(calls[i].model)
        /\ RetriesOf(calls[i].model) >= 3

\* Every model of the role's list has failed all of its attempts.
AllExhausted ==
    \A p \in 1..Len(Fallbacks) :
        Cardinality(FailedOn(Fallbacks[p])) = RetriesOf(Fallbacks[p])

\* C4: when every model of the list has failed all its attempts,
\* get_completion has raised 'All models failed', once, and has returned
\* nothing.
C4_ExhaustionOnce ==
    AllExhausted =>
        /\ pc = "raised"
        /\ raised = <<"All models failed">>
        /\ response = NoResponse

C4_Witness ==
    /\ AllExhausted
    /\ Len(Fallbacks) >= 2
    /\ pc = "raised"

\* C5: with the list [A (2 attempts), B (1 attempt)], when every attempt on A
\* fails transiently and B's first attempt succeeds, the attempts are A, A, B
\* and get_completion returns B's output.
C5_Scenario ==
    (/\ model_role = "x"
     /\ CallsOn("B") # {}
     /\ \A i \in CallsOn("A") : calls[i].outcome = "transient"
     /\ \A i \in CallsOn("B") :
           (\A j \in CallsOn("B") : i <= j) => calls[i].outcome = "parsed")
        => /\ Len(calls) = 3
           /\ calls[1].model = "A"
           /\ calls[2].model = "A"
           /\ calls[3].model = "B"
           /\ pc = "returned"
           /\ response = [from |-> "B", call |-> 3]

C5_Witness ==
    /\ model_role = "x"
    /\ Len(calls) = 3
    /\ calls[1].outcome = "transient"
    /\ calls[2].outcome = "transient"
    /\ response.from = "B"

\* C6 as stated: get_completion raises only when every model of the list has
\* been attempted and has used up its attempts.
C6_RaisesOnlyWhenExhausted ==
    pc = "raised" =>
        \A p \in 1..Len(Fallbacks) :
            Cardinality(CallsOn(Fallbacks[p])) = RetriesOf(Fallbacks[p])

\* C7 as stated: every request sent has at most 0.8 x context_length tokens,
\* prompt and payload together.
C7_WithinBudget ==
    \A i \in 1..Len(calls) :
        Tokens(calls[i].system) + Tokens(calls[i].content)
            <= AvailableTokens(ContextOf(calls[i].model))

\* C8 as stated: a model whose budget the prompt and the caller's content
\* fit is sent the caller's content unchanged.
C8_FittingContentUnchanged ==
    \A i \in 1..Len(calls) :
        Tokens(system_prompt) + Tokens(user_content)
            <= AvailableTokens(ContextOf(calls[i].model))
          => calls[i].content = user_content

\* C9 as stated: a shortened content begins with the first 10% and ends with
\* the last 10% of the original, measured on the original's length.
C9_Original ==
    \A i \in 1..Len(trunc_log) :
        LET t == trunc_log[i]
            tenth == Len(t.input) \div 10
        IN  Len(t.output) < Len(t.input) =>
               /\ PyHead(t.output, tenth) = PyHead(t.input, tenth)
               /\ PyTail(t.output, tenth) = PyTail(t.input, tenth)

\* C9, amended: a shortened content begins with the first keep_end and ends
\* with the last keep_end characters of the original, keep_end being 10% of
\* the characters kept, int(int(len x available / content_tokens) x 0.1),
\* and at least 1.
C9_KeepsEnds ==
    \A i \in 1..Len(trunc_log) :
        LET t == trunc_log[i]
            k == ((Len(t.input) * ((ContextOf(t.model) * 4) \div 5))
                     \div Tokens(t.input)) \div 10
        IN  Len(t.output) < Len(t.input) =>
               /\ k >= 1
               /\ SubSeq(t.output, 1, k) = SubSeq(t.input, 1, k)
               /\ SubSeq(t.output, Len(t.output) - k + 1, Len(t.output))
                     = SubSeq(t.input, Len(t.input) - k + 1, Len(t.input))

C9_Witness ==
    \E i \in 1..Len(trunc_log) :
        /\ Len(trunc_log[i].output) < Len(trunc_log[i].input)
        /\ trunc_log[i].keep_end >= 1
        /\ Len(trunc_log[i].output) > 2 * trunc_log[i].keep_end

\* C34: get_completion returns a typed value or raises, never None: when it
\* has returned, what it returned is the parsed value of an attempt, and
\* when it has raised it has returned nothing; an attempt that ended without
\* an exception and without a parsed value is not what was returned and is
\* the last attempt on its model, the next attempt, if there is one, being on
\* the next model of the fallback list, and get_completion having raised if
\* that model was the last.
C34_NeverReturnsNone ==
    /\ pc = "returned" =>
          /\ response # NoResponse
          /\ response.call \in 1..Len(calls)
          /\ calls[response.call].outcome = "parsed"
          /\ raised = <<>>
    /\ pc = "raised" => (response = NoResponse /\ raised # <<>>)
    /\ \A i \in 1..Len(calls) :
          calls[i].outcome = "parsed_none" =>
              /\ response.call # i
              /\ i < Len(calls) =>
                    Pos(calls[i + 1].model) = Pos(calls[i].model) + 1
              /\ i = Len(calls) =>
                    IF Pos(calls[i].model) = Len(Fallbacks)
                    THEN pc = "raised"
                    ELSE /\ pc \in {"loop", "sampling", "try"}
                         /\ mi = Pos(calls[i].model) + 1

\* The first model of the navigator role answered without a parsed value on
\* its first attempt, and the second model's result was returned.
C34_Witness ==
    /\ model_role = "navigator"
    /\ pc = "returned"
    /\ Len(calls) = 2
    /\ calls[1].model = "gemini-2-flash"
    /\ calls[1].outcome = "parsed_none"
    /\ response = [from |-> "gpt-4o-mini", call |-> 2]

\* C33: the path of every attempt is given by the two flags of the model it
\* is made on, whatever the role, the content and the attempts before it: a
\* pydantic_output model is asked through completions.parse and its parsed
\* value is returned as it is, a model with structured_output and without
\* pydantic_output is asked with the json_schema format and its text is
\* parsed by the client, and the unstructured path, whose free text goes to
\* structure_response, is that of the models with neither flag and of no
\* other.
C33_PathByFlags ==
    handled # NoAttempt =>
        LET m == Registry[calls[Len(calls)].model]
        IN  /\ m.pydantic_output => handled.path = "parse"
            /\ (m.structured_output /\ ~m.pydantic_output) =>
                  handled.path = "json_schema"
            /\ handled.path = "unstructured" <=>
                  (~m.structured_output /\ ~m.pydantic_output)
            /\ handled.path \in {"parse", "json_schema", "unstructured"}
            /\ handled.text => handled.path = "unstructured"

\* The debugger role went through the three attempts of claude-3.5-sonnet on
\* the json_schema path, and the attempt on gemini-2-flash-thinking, a model
\* with neither flag, obtained free text on the unstructured path.
C33_Witness ==
    /\ model_role = "debugger"
    /\ Len(calls) = 4
    /\ calls[3].model = "claude-3.5-sonnet"
    /\ calls[4].model = "gemini-2-flash-thinking"
    /\ handled.path = "unstructured"
    /\ handled.text

\* The chunks of the middle as line 95 split them, and the middle budget of
\* line 99, of the _truncate_content call under way.
PoolAtStart == Split(Middle(content_str, max_tokens))

MiddleBudget == KeepMiddleChars(content_str, max_tokens)

Occurrences(cs, c) == Cardinality({i \in 1..Len(cs) : cs[i] = c})

\* C31: while the sampling loop of _truncate_content runs, the accepted
\* total is the length of the accepted chunks and at most the middle budget
\* keep_chars - 2 * keep_end, and no chunk is in the pool and the accepted
\* list together more often than the split produced it; every round takes
\* one chunk out of the pool for good and accepts it only if the total stays
\* within the budget, a rejected chunk changing nothing else; and the loop
\* is left only with the pool empty or the budget filled.
C31_SamplingWithinBudget ==
    /\ [](pc = "sampling" =>
             /\ current_chars = Len(Join(selected_chunks))
             /\ current_chars <= MiddleBudget
             /\ \A i \in 1..Len(PoolAtStart) :
                   Occurrences(chunks, PoolAtStart[i])
                       + Occurrences(selected_chunks, PoolAtStart[i])
                     <= Occurrences(PoolAtStart, PoolAtStart[i])
             /\ \A i \in 1..Len(chunks) : Occurrences(PoolAtStart, chunks[i]) > 0
             /\ \A i \in 1..Len(selected_chunks) :
                   Occurrences(PoolAtStart, selected_chunks[i]) > 0)
    /\ [][(pc = "sampling" /\ pc' = "sampling") =>
             /\ current_chars < MiddleBudget /\ chunks # <<>>
             /\ \E i \in 1..Len(chunks) :
                   /\ chunks' = Without(chunks, i)
                   /\ \/ /\ current_chars + Len(chunks[i]) <= MiddleBudget
                         /\ selected_chunks' = Append(selected_chunks, chunks[i])
                         /\ current_chars' = current_chars + Len(chunks[i])
                      \/ /\ current_chars + Len(chunks[i]) > MiddleBudget
                         /\ selected_chunks' = selected_chunks
                         /\ current_chars' = current_chars]_vars
    /\ [][(pc = "sampling" /\ pc' # "sampling") =>
             (chunks = <<>> \/ current_chars = MiddleBudget)]_vars

\* The loop stands after three rounds: two chunks were accepted, one was
\* drawn and rejected for exceeding what was left of the budget, and chunks
\* are still in the pool.
C31_Witness ==
    /\ pc = "sampling"
    /\ Len(selected_chunks) = 2
    /\ Len(chunks) + 3 = Len(PoolAtStart)
    /\ chunks # <<>>
    /\ 0 < current_chars /\ current_chars < MiddleBudget

\* C32 as stated: whenever _truncate_content takes its truncation branch, the
\* string it returns is strictly shorter than its input and has at most
\* keep_chars characters, also when keep_end = int(keep_chars * 0.1) is 0.
C32_ShorterWithinKeepChars ==
    \A i \in 1..Len(trunc_log) :
        /\ Len(trunc_log[i].output) < Len(trunc_log[i].input)
        /\ Len(trunc_log[i].output) <= trunc_log[i].keep_chars

\* C22 as stated: an attempt on a model with neither flag that obtained free
\* text has sent exactly one more request, to the structurer model, and has
\* returned the typed result of that request.
C22_TextIsStructured ==
    handled.text =>
        /\ handled.path = "unstructured"
        /\ handled.structurer_requests = 1
        /\ calls[Len(calls)].outcome = "parsed"

\* C23 as stated: the structuring step sends its request to the one
\* structurer model only, and when it has failed get_completion has failed:
\* the primary model is not attempted again and no other model is tried.
C23_StructuringFailureIsFinal ==
    (handled.text /\ calls[Len(calls)].outcome # "parsed") =>
        /\ handled.structurer_requests <= 1
        /\ pc = "raised"

\* C24 as stated: after an attempt raised an exception that is not one of
\* the transient classes no other attempt is made on that model, and the
\* failure is fatal for that model only: get_completion does not fail on
\* its account while a later model of the list is untried.
C24_OtherFailsModelOnly ==
    \A i \in 1..Len(calls) :
        calls[i].outcome = "other" =>
            /\ \A j \in (i + 1)..Len(calls) : calls[j].model # calls[i].model
            /\ Pos(calls[i].model) < Len(Fallbacks) => pc # "raised"

\* The delays the first n attempts call for: 2^k seconds after the k-th
\* failed attempt on a model, unless it was the model's last attempt.
RECURSIVE ExpectedSleeps(_)
ExpectedSleeps(n) ==
    IF n = 0 THEN <<>>
    ELSE LET k == Cardinality(FailedOnUpTo(calls[n].model, n))
         IN  IF calls[n].outcome = "transient" /\ k < RetriesOf(calls[n].model)
             THEN Append(ExpectedSleeps(n - 1), 2 ^ k)
             ELSE ExpectedSleeps(n - 1)

\* C28: after the k-th transient failure on a model, k being less than the
\* model's retries, _try_model sleeps 2^k seconds before the next attempt on
\* that model (2, 4, 8, ... seconds, each delay twice the one before), and
\* after the model's last failed attempt it does not sleep: the delays slept
\* so far are exactly these, in order.
C28_BackoffDoubles == slept = ExpectedSleeps(Len(calls))

\* A model with five attempts has failed them all, after delays of 2, 4, 8
\* and 16 seconds, and the next model is up without another delay.
C28_Witness ==
    /\ model_role = "navigator"
    /\ mi = 2
    /\ Len(calls) = 5
    /\ slept = <<2, 4, 8, 16>>

\* ------------------------------------------------------ claims on generate

\* The tests of the current generate() that failed.
FailedTests ==
    {i \in 1..Len(debugging_history) : ~debugging_history[i].success}

\* C10: generate makes at most max_attempts generate_spider and test_scraper
\* calls, and after the max_attempts-th failed test it has reported the
\* failure and is over.
C10_AtMostMaxAttempts ==
    /\ gen_calls <= 20
    /\ test_calls <= 20
    /\ Cardinality(FailedTests) <= 20
    /\ Cardinality(FailedTests) = 20 =>
          /\ g_pc = "idle"
          /\ g_outcome = "failed"

C10_Witness ==
    /\ gen_calls = 20
    /\ test_calls = 20
    /\ Cardinality(FailedTests) = 20
    /\ g_outcome = "failed"

\* C11: every iteration of generate's loop calls generate_spider and then
\* test_scraper, once each; a successful test is the last call of the loop
\* (no generate_spider or test_scraper call follows it), and generate
\* returns without a successful test only after 20 failed tests.
C11_StopsAtFirstSuccess ==
    /\ g_pc = "generate_spider" =>
          /\ gen_calls = attempt - 1
          /\ test_calls = attempt - 1
    /\ g_pc = "test_scraper" =>
          /\ gen_calls = attempt
          /\ test_calls = attempt - 1
    /\ \A i \in 1..Len(debugging_history) :
          debugging_history[i].success =>
             /\ i = Len(debugging_history)
             /\ g_pc = "idle"
             /\ gen_calls = i
             /\ test_calls = i
    /\ (g_pc = "idle" /\ g_outcome \in {"success", "failed"}) =>
          /\ debugging_history # <<>>
          /\ \/ debugging_history[Len(debugging_history)].success
             \/ Cardinality(FailedTests) = 20

\* The third test is the first to succeed.
C11_Witness ==
    /\ g_pc = "idle"
    /\ g_outcome = "success"
    /\ Len(debugging_history) = 3
    /\ gen_calls = 3
    /\ test_calls = 3

\* C16: while target_fields or base_url is unset no step sets up the
\* project, starts the loop or runs a spider, and a generate() call ends
\* with ValueError and leaves the attributes of the session as they were;
\* as long as no project has been set up, run() runs no spider.
C16_RejectedBeforeAnything ==
    /\ [][(target_fields = "None" \/ base_url = "None") =>
             /\ g_pc' = "idle"
             /\ g_outcome' \in {g_outcome, "ValueError"}
             /\ g_outcome' # g_outcome =>
                   UNCHANGED <<target_fields, base_url, website_structure>>
             /\ UNCHANGED <<scaffolded, output_dir, run_log, gcVars>>
             /\ gen_calls' = 0
             /\ test_calls' = 0]_vars
    /\ [](~scaffolded => run_log = <<>> /\ run_outcome # "returned")

\* generate() was rejected with the website analyzed and the target fields
\* unset, and so was the run() that followed.
C16_Witness ==
    /\ g_outcome = "ValueError"
    /\ target_fields = "None"
    /\ base_url = "url"
    /\ website_structure = "analysis"
    /\ run_outcome = "ValueError"
    /\ ~scaffolded

\* C36 as stated: while the session has no website analysis (no
\* analyze_website call has returned one), no step sets up the project or
\* enters the generate/test loop, and a generate() call ends with the
\* ValueError of the precondition check.
C36_NoScaffoldWithoutAnalysis ==
    [][website_structure = "unset" =>
          /\ UNCHANGED <<scaffolded, output_dir>>
          /\ g_pc' = "idle"
          /\ g_outcome' \in {g_outcome, "ValueError"}]_vars

\* C19 as stated: run() executes the spider once, with no timeout, and an
\* execution that failed (a launch error or an unsuccessful run) comes back
\* as success = false and is logged, run() raising nothing.
C19_RunSurfacesFailure ==
    /\ run_outcome = "returned" => run_log # <<>>
    /\ \A i \in 1..Len(run_log) :
          /\ run_log[i].timeout = "None"
          /\ run_log[i].execution # "exit_zero" =>
                /\ ~run_log[i].success
                /\ run_log[i].error_logged

\* --------------------------------------------------- claims on test_scraper

\* C13: a result returned by test_scraper with no item counted has
\* success = false, whatever the critic's verdict; a returned result with
\* success = true means that the spider was run and an item was counted.
C13_NoItemsNoSuccess ==
    t_pc = "done" =>
        /\ t_items = 0 => ~t_result.success
        /\ t_result.success =>
              /\ t_exec \notin {"none", "error"}
              /\ t_items >= 1

\* The critic reported a success and items, none was counted, and the
\* result returned is a failure.
C13_Witness ==
    /\ t_pc = "done"
    /\ t_items = 0
    /\ t_critic = "success"
    /\ t_result.items_scraped >= 1
    /\ ~t_result.success

\* config.py, line 173
MAX_DEBUGGER_LOOPS == 1

\* C26 as stated: when the critic's result asks for more page information,
\* test_scraper has the named page analyzed and the critique run again, at
\* most MAX_DEBUGGER_LOOPS times: a result is returned to generate only
\* after the page the critic asked for was analyzed, and never after more
\* than MAX_DEBUGGER_LOOPS analyses.
C26_SupplementOnRequest ==
    t_pc = "done" =>
        /\ t_more.analyzed <= MAX_DEBUGGER_LOOPS
        /\ t_more.needs_more_info => t_more.analyzed >= 1

\* C25 as stated: after a timeout of the spider run test_scraper goes on
\* with the output captured so far (the logs are saved, the items counted
\* and the critic asked), and a result it returns is the critic's; after
\* any other execution error it has returned success = false with
\* items_scraped = 0 without asking the critic.
C25_TimeoutAnalyzedErrorNot ==
    /\ [][(t_pc = "run" /\ t_exec' \in TestTimeouts) => t_pc' = "logs"]_vars
    /\ []((t_exec \in TestTimeouts /\ t_pc = "done") => t_result.made = "critic")
    /\ [](t_exec = "error" =>
             /\ t_pc = "done"
             /\ t_result = TestResult(FALSE, 0, "run_error")
             /\ t_critic = "none"
             /\ pc = "idle")

\* ------------------------------------------------ claims on generate_spider

\* C14: generate_spider requests at most 20 actions, and an action marked
\* final with a successful file operation is the last one: the loop is over
\* and no request has followed it.
C14_StopsOnFinalSuccess ==
    /\ Len(a_requests) <= 20
    /\ a_n <= 20
    /\ (a_last.is_final /\ \E i \in 1..Len(a_last.output) : a_last.output[i]) =>
          /\ a_pc = "done"
          /\ Len(a_requests) = a_n
          /\ Len(previous_actions) = a_n

\* The loop was stopped by its third action.
C14_Witness ==
    /\ a_pc = "done"
    /\ a_n = 3
    /\ a_last.is_final
    /\ a_last.output = <<TRUE>>

\* C15: after an action marked final whose outcomes are all failures, or
\* that has no operation, the loop goes on to its next request unless 20
\* actions have been requested.
C15_FinalWithoutSuccessGoesOn ==
    (/\ a_pc \notin {"idle", "raised"}
     /\ a_last.bound
     /\ a_last.is_final
     /\ \A i \in 1..Len(a_last.output) : ~a_last.output[i]
     /\ a_n < 20)
        => a_pc = "loop"

\* A final action whose operation failed has been applied and the loop
\* stands before its next request.
C15_Witness ==
    /\ a_pc = "loop"
    /\ a_n = 2
    /\ a_last.is_final
    /\ a_last.output = <<FALSE>>

\* The file as operation i of the last action found it and as it left it.
FileBefore(i) == ImplementAction(a_last.file, SubSeq(a_last.actions, 1, i - 1)).file

FileAfter(i) == ImplementAction(a_last.file, SubSeq(a_last.actions, 1, i)).file

\* The record of the last action is the last entry of the feedback memory.
LastActionRemembered ==
    /\ previous_actions # <<>>
    /\ Len(previous_actions) = a_n
    /\ previous_actions[a_n] = [n |-> a_n]

\* C27: a create operation on a file that exists comes back as a failure
\* outcome, the action that holds it being applied without an exception
\* (the step that binds its outcomes leaves implement_action for the loop
\* or the end of the call), leaves the file with the content it had, and
\* is followed by the remaining operations of the action, which are applied
\* to that file (an overwrite, an append or a delete after it succeeds and
\* changes the file, another create fails); the action is in the feedback
\* memory with its outcomes, and the memory of the next request holds it.
C27_CreateOnExistingFails ==
    /\ [](a_last.bound =>
             /\ Len(a_last.output) = Len(a_last.actions)
             /\ \A i \in 1..Len(a_last.actions) :
                   (a_last.actions[i] = "create" /\ FileBefore(i).exists) =>
                       /\ ~a_last.output[i]
                       /\ FileAfter(i) = FileBefore(i)
                       /\ LastActionRemembered
                       /\ i < Len(a_last.actions) =>
                             /\ a_last.output[i + 1] = (a_last.actions[i + 1] # "create")
                             /\ a_last.actions[i + 1] = "create" =>
                                   FileAfter(i + 1) = FileBefore(i)
                             /\ a_last.actions[i + 1] = "delete" =>
                                   ~FileAfter(i + 1).exists
                             /\ a_last.actions[i + 1] = "overwrite" =>
                                   FileAfter(i + 1).content = <<"new">>
                             /\ a_last.actions[i + 1] = "append" =>
                                   FileAfter(i + 1).content =
                                       Append(FileBefore(i).content, "new"))
    /\ [][a_last'.bound /\ ~a_last.bound =>
             /\ a_pc = "implement" /\ a_pc' \in {"loop", "done"}
             /\ a_n' = a_n + 1]_vars
    /\ [][(a_pc = "loop" /\ a_pc' = "awaiting") =>
             /\ previous_actions' = previous_actions
             /\ a_requests'[Len(a_requests')].memory = Len(previous_actions)]_vars

\* An action whose first operation was a create on the file that exists and
\* whose second was an append has been applied: the outcomes are a failure
\* and a success, and the loop stands before its next request.
C27_Witness ==
    /\ a_pc = "loop"
    /\ a_last.bound
    /\ a_last.file = Present(<<"old">>)
    /\ a_last.actions = <<"create", "append">>
    /\ a_last.output = <<FALSE, TRUE>>
    /\ LastActionRemembered

\* What an operation of a type comes to on a file that exists or not.
ExpectedSuccess(action_type, exists) ==
    IF action_type = "create" THEN ~exists ELSE exists

ExpectedFile(action_type, file) ==
    CASE action_type = "create" -> Present(<<"new">>)
      [] action_type = "overwrite" -> Present(<<"new">>)
      [] action_type = "append" -> Present(Append(file.content, "new"))
      [] action_type = "delete" -> Absent

\* C30: implement_action returns one outcome for each operation of the
\* action, outcome i being that of operation i on the file as operations
\* 1..i-1 left it: a create succeeds when the file is absent, an overwrite,
\* an append and a delete when it is there, a successful operation has its
\* effect on the file and a failed one has none; and after every action,
\* whatever its outcomes, previous_actions has one record more, so that it
\* holds one record per action applied.
C30_OneOutcomePerOperation ==
    /\ Len(previous_actions) = a_n
    /\ a_last.bound =>
          /\ LastActionRemembered
          /\ Len(a_last.output) = Len(a_last.actions)
          /\ \A i \in 1..Len(a_last.actions) :
                /\ a_last.output[i] =
                      ExpectedSuccess(a_last.actions[i], FileBefore(i).exists)
                /\ FileAfter(i) =
                      IF a_last.output[i]
                      THEN ExpectedFile(a_last.actions[i], FileBefore(i))
                      ELSE FileBefore(i)

\* An action of two operations whose first failed and whose second
\* succeeded has been applied as the third action of the call.
C30_Witness ==
    /\ a_last.bound
    /\ a_n = 3
    /\ a_last.file = Absent
    /\ a_last.actions = <<"delete", "create">>
    /\ a_last.output = <<FALSE, TRUE>>
    /\ Len(previous_actions) = 3

\* --------------------------------------------- claims on implement_action

\* C38: an overwrite, an append or a delete on a file that is not there
\* appends a failure outcome, raises nothing and leaves every file of the
\* project as it was, the named one still absent; a delete that succeeded
\* has removed the named file and left every other file, and an append that
\* succeeded has left the named file with its previous content as a prefix
\* and every other file as it was.
C38_MissingFileLeftAlone ==
    /\ [][(fm_pc = "loop" /\ fm_i <= Len(fm_actions)
             /\ fm_actions[fm_i].action_type \in {"overwrite", "append", "delete"}
             /\ ~fm_project[fm_actions[fm_i].file].exists) =>
                /\ fm_pc' = "loop"
                /\ fm_i' = fm_i + 1
                /\ fm_feedbacks' = Append(fm_feedbacks, FALSE)
                /\ fm_project' = fm_project]_vars
    /\ [][(fm_i' = fm_i + 1 /\ fm_feedbacks'[fm_i]) =>
             LET named == fm_actions[fm_i].file
                 type == fm_actions[fm_i].action_type
             IN  /\ \A f \in FileNames \ {named} : fm_project'[f] = fm_project[f]
                 /\ type = "delete" =>
                       (fm_project[named].exists /\ ~fm_project'[named].exists)
                 /\ type = "append" =>
                       /\ fm_project'[named].exists
                       /\ Len(fm_project'[named].content)
                             > Len(fm_project[named].content)
                       /\ SubSeq(fm_project'[named].content, 1,
                                 Len(fm_project[named].content))
                             = fm_project[named].content]_vars
    /\ [](fm_pc \in {"loop", "done", "raised"} =>
             /\ Len(fm_feedbacks) = fm_i - 1
             /\ fm_pc = "done" => Len(fm_feedbacks) = Len(fm_actions))

\* An append to items.py, which is not there, failed and created nothing,
\* and the delete of spider.py after it removed that file alone.
C38_Witness ==
    /\ fm_pc = "done"
    /\ fm_actions = <<[action_type |-> "append", file |-> "items.py"],
                      [action_type |-> "delete", file |-> "spider.py"]>>
    /\ fm_feedbacks = <<FALSE, TRUE>>
    /\ \A f \in FileNames : ~fm_project[f].exists

\* ----------------------------------------------- claims on analyse_website

\* C17 as stated: when the start URL cannot be loaded or analyzed, the
\* analysis is aborted (no other page is analyzed after it and no analysis
\* is returned); a page that fails on a later level never ends the
\* traversal with an error.
C17_FirstLevelFatal ==
    /\ n_first \in {"not_loaded", "raised"} =>
          /\ \A d \in DOMAIN n_visits : n_visits[d] <= (IF d = 0 THEN 1 ELSE 0)
          /\ n_result # "analysis"
    /\ (n_last.level >= 1 /\ n_last.end # "analyzed" /\ n_pc = "raised") =>
          n_result \in {"synthesis_error", "UnboundLocalError"}

\* C18 as stated: at most 3 depth levels are traversed and at most 5 links
\* are analyzed on each.
C18_DepthAndLinksBounded ==
    /\ n_depth <= 3
    /\ \A d \in DOMAIN n_visits : n_visits[d] <= 5

\* C29: the driver is started before the first page is loaded and is quit
\* once when traversal and synthesis have ended, however they ended: pages
\* are loaded only while the started driver runs, the driver runs all
\* through traversal and synthesis, it is quit when analyse_website has
\* returned or raised after starting it, and it is never quit a second
\* time.
C29_DriverAroundTraversal ==
    /\ [][n_visits' # n_visits =>
             (n_driver = "started" /\ n_driver' = "started")]_vars
    /\ [](n_pc \in {"depth", "page", "synth"} => n_driver = "started")
    /\ []((n_pc \in {"done", "raised"} /\ n_result # "driver_error") =>
             n_driver = "quit")
    /\ [](n_driver \in {"none", "started", "quit"})

\* The synthesis raised after pages were analyzed on the third level, and
\* the driver is quit.
C29_Witness ==
    /\ n_pc = "raised"
    /\ n_result = "UnboundLocalError"
    /\ n_visits[2] >= 1
    /\ n_analyses >= 1
    /\ n_driver = "quit"

\* C37: urls is assigned by every page that was analyzed, with the
\* links_to_follow of that page, and by nothing else, so that it holds the
\* links of the last page analyzed; the list a level enumerates is urls as
\* the level before left it, which is the list that level enumerated itself
\* when none of its pages was analyzed; and the traversal ends before all
\* MAX_DEPTH levels were visited only with an empty list.
C37_NextLevelFollowsLastPage ==
    /\ [][n_analyses' # n_analyses =>
             /\ n_pc = "page"
             /\ n_analyses' = n_analyses + 1
             /\ n_last' = [level |-> n_iter, index |-> n_i, end |-> "analyzed"]
             /\ n_urls'.level = n_iter
             /\ n_urls'.index = n_i]_vars
    /\ [][n_analyses' = n_analyses => n_urls' = n_urls]_vars
    /\ [][n_copy' # n_copy => n_iter' = n_iter + 1]_vars
    /\ [][(n_iter' # n_iter /\ n_pc # "idle" /\ n_pc' # "idle") =>
             /\ n_iter' = n_iter + 1
             /\ n_copy' = n_urls
             /\ (n_iter >= 0 /\ n_urls.level # n_iter) => n_copy' = n_copy]_vars
    /\ [](n_pc = "page" => n_copy.level < n_iter /\ n_urls.level <= n_iter)
    /\ [](n_pc = "synth" =>
             \/ n_urls.len = 0
             \/ /\ n_iter = MAX_DEPTH - 1
                /\ \A d \in 0..(MAX_DEPTH - 1) : n_visits[d] >= 1)

\* The third level enumerates the links of the start page, the one page of
\* the first level, no page of the second level having been analyzed.
C37_Witness ==
    /\ n_pc = "page"
    /\ n_iter = 2
    /\ n_copy = Urls(0, 0, MaxLinksFound)
    /\ n_visits[1] = MAX_LINKS + 1
    /\ n_visits[2] >= 1
    /\ n_analyses = 1

\* C35: analyse_website has returned only with the value the synthesis
\* gave; the step that follows the end of the traversal either returns that
\* value or, the synthesis having raised, raises to the caller, with the
\* exception of the synthesis when iter is 0 and with another one on every
\* other value of iter; no call ends with a missing or partial analysis.
C35_ReturnsSynthesisOrRaises ==
    /\ [](n_pc = "done" <=> n_result = "analysis")
    /\ [](n_pc = "raised" <=>
             n_result \in {"driver_error", "synthesis_error", "UnboundLocalError"})
    /\ [][n_pc = "synth" =>
             \/ n_pc' = "done" /\ n_result' = "analysis"
             \/ /\ n_pc' = "raised"
                /\ n_result' = IF n_iter = 0 THEN "synthesis_error"
                                ELSE "UnboundLocalError"]_vars

\* The traversal was left on its second level, the list of URLs being empty,
\* and the synthesis raised: analyse_website raised with iter = 1.
C35_Witness ==
    /\ n_pc = "raised"
    /\ n_iter = 1
    /\ n_urls.len = 0
    /\ n_analyses >= 1
    /\ n_result = "UnboundLocalError"

\* C39: once the driver is started, analyze_specific_page ends in one way,
\* however its page analysis ended (with an analysis, with nothing or with
\* an exception): the driver is quit and None is returned to the caller; no
\* exception of the page analysis reaches the caller.
C39_SpecificPageReturnsNone ==
    /\ [][n_pc = "specific_page" =>
             /\ n_pc' = "specific_done"
             /\ n_result' = "None"
             /\ n_last'.end \in PageEnds
             /\ n_driver = "started" /\ n_driver' = "quit"]_vars
    /\ [](n_pc = "specific_done" => (n_result = "None" /\ n_driver = "quit"))
    /\ [](n_result = "None" => n_pc = "specific_done")

\* The page analysis raised, and analyze_specific_page returned None with
\* the driver quit.
C39_Witness ==
    /\ n_pc = "specific_done"
    /\ n_last.end = "raised"
    /\ n_result = "None"
    /\ n_driver = "quit"

\* -------------------------------- claims on generate() with all its calls

\* C20: while generate_spider runs in attempt k, its debug_result argument
\* and the feedback of every action request it has made are the result of
\* the test of attempt k-1 for k >= 2, and none in attempt 1.
C20_FeedbackOfPreviousTest ==
    a_pc # "idle" =>
        /\ attempt >= 2 =>
              /\ Len(debugging_history) = attempt - 1
              /\ debugging_history[attempt - 1].by_attempt = attempt - 1
        /\ LET expected == IF attempt = 1 THEN NoResult
                           ELSE debugging_history[attempt - 1]
           IN  /\ a_feedback = expected
               /\ \A i \in 1..Len(a_requests) : a_requests[i].feedback = expected

\* The second action request of the third attempt has been made, with the
\* result of the second test.
C20_Witness ==
    /\ attempt = 3
    /\ Len(a_requests) = 2
    /\ a_requests[2].feedback = [success |-> FALSE, by_attempt |-> 2]

\* C21 as stated: the (action, outcomes) records of earlier attempts of the
\* generate() session are still in the memory given to the generator in a
\* later attempt.  Every generate_spider call that returned has appended at
\* least one record, so the memory of the i-th request of a call holds at
\* least one record for each earlier call and the i-1 records of this one.
C21_MemoryKeptAcrossAttempts ==
    \A i \in 1..Len(a_requests) :
        a_requests[i].memory >= gen_calls + (i - 1)

\* The longest context of an agent and the longest fallback list.
LongestContent ==
    CHOOSE n \in {Len(c) : c \in AgentContents} :
        \A c \in AgentContents : Len(c) <= n

LongestList ==
    CHOOSE n \in {Len(Choices[r]) : r \in Roles} :
        \A r \in Roles : Len(Choices[r]) <= n

\* The steps one model of a get_completion call can take at most: the
\* truncation, one per chunk of the pool (a text has at most one chunk more
\* than characters) and one per attempt (no model has more than 5).
ModelBudget == Len(user_content) + 9

CallBudget == LongestList * (LongestContent + 9)

\* The steps left to the get_completion call under way: those of the models
\* after the current one, and for the current one the chunks left in the
\* pool and the attempts left.
CompletionLeft ==
    CASE pc = "loop" -> (Len(Fallbacks) - mi + 1) * ModelBudget
      [] pc = "sampling" ->
            (Len(Fallbacks) - mi) * ModelBudget
               + Len(chunks) + model_config.retries + 2
      [] pc = "try" ->
            (Len(Fallbacks) - mi) * ModelBudget + (model_config.retries - retries)
      [] OTHER -> 0

ActionBudget == CallBudget + 3

\* The steps left to generate_spider: those of the actions not yet asked for.
ActionsLeft ==
    CASE a_pc = "loop" -> (MAX_ACTIONS - a_n) * ActionBudget
      [] a_pc = "awaiting" -> (MAX_ACTIONS - a_n - 1) * ActionBudget + 2
      [] a_pc = "implement" -> (MAX_ACTIONS - a_n - 1) * ActionBudget + 1
      [] OTHER -> 0

TestBudget == CallBudget + 6

\* The steps left to test_scraper.
TestLeft ==
    CASE t_pc = "start" -> CallBudget + 6
      [] t_pc = "run" -> CallBudget + 5
      [] t_pc = "logs" -> CallBudget + 4
      [] t_pc = "analyze" -> CallBudget + 3
      [] t_pc = "critic" -> 1
      [] OTHER -> 0

AttemptBudget == MAX_ACTIONS * ActionBudget + TestBudget + 6

\* The steps left to generate's loop: those of the attempts after the
\* current one, and what is left of the current one.
AttemptsLeft ==
    CASE g_pc = "idle" /\ g_outcome = "none" -> 20 * AttemptBudget + 1
      [] g_pc = "generate_spider" -> (20 - attempt + 1) * AttemptBudget
      [] g_pc = "in_generate_spider" ->
            (20 - attempt) * AttemptBudget + TestBudget + 4
      [] g_pc = "test_scraper" ->
            (20 - attempt) * AttemptBudget + TestBudget + 3
      [] g_pc = "in_test_scraper" -> (20 - attempt) * AttemptBudget + 1
      [] OTHER -> 0

StepsLeft == AttemptsLeft + ActionsLeft + TestLeft + CompletionLeft

\* C12: generate() terminates when every call it makes returns: the number
\* of steps left, counted from the attempts, the actions of the attempt,
\* the models of the role, the attempts on the model and the chunks of the
\* pool that are left, is never negative and gets smaller with every step
\* of generate and of what it calls, so no execution goes on for ever.
C12_EveryStepCountsDown ==
    /\ [](StepsLeft >= 0)
    /\ [][StepsLeft' < StepsLeft]_vars

\* generate() is over after 20 failed tests, and nothing is left to do.
C12_Witness ==
    /\ g_pc = "idle"
    /\ g_outcome = "failed"
    /\ test_calls = 20
    /\ gen_calls = 20
    /\ StepsLeft = 0

\* ------------------------------------------------------- the specifications

Next == NextCompletion \/ NextSession

\* One get_completion call, from its entry to its return or exception.
InitSpec ==
    InitCompletion /\ IdleSession /\ IdleDebugger /\ IdleGenerator /\ IdleNavigator /\ IdleFileManager

Spec == InitSpec /\ [][NextCompletion]_vars

\* One session: the caller's calls of set_target_fields, analyze_website and
\* generate, with every generate() run to its end.
InitGenerate ==
    IdleCompletion /\ InitSession /\ IdleDebugger /\ IdleGenerator /\ IdleNavigator /\ IdleFileManager

SpecGenerate == InitGenerate /\ [][NextSession]_vars

\* One test_scraper call, with the get_completion call it makes.
InitTest ==
    IdleCompletion /\ IdleSession /\ InitDebugger /\ IdleGenerator /\ IdleNavigator /\ IdleFileManager

NextTest == NextDebugger \/ NextCompletion

SpecDebugger == InitTest /\ [][NextTest]_vars

\* One generate() call with everything it calls: generate_spider, its
\* action requests, test_scraper, and their get_completion calls.
InitGenerateCalls ==
    IdleCompletion /\ ReadySession /\ IdleDebugger /\ IdleGenerator /\ IdleNavigator /\ IdleFileManager

NextGenerateAll ==
    NextGenerateCalls \/ NextGenerator \/ NextDebugger \/ NextCompletion

SpecGenerateAll == InitGenerateCalls /\ [][NextGenerateAll]_vars

\* One generate_spider call, with the get_completion calls it makes.
InitActions ==
    IdleCompletion /\ IdleSession /\ IdleDebugger /\ InitGenerator /\ IdleNavigator /\ IdleFileManager

NextActions == NextGenerator \/ NextCompletion

SpecGenerator == InitActions /\ [][NextActions]_vars

\* One analyse_website call.
InitAnalysis ==
    IdleCompletion /\ IdleSession /\ IdleDebugger /\ IdleGenerator /\ InitNavigator
        /\ IdleFileManager

SpecNavigator == InitAnalysis /\ [][NextNavigator]_vars

\* One implement_action call on a project of two files.
InitImplement ==
    IdleCompletion /\ IdleSession /\ IdleDebugger /\ IdleGenerator /\ IdleNavigator
        /\ InitFileManager

SpecFileManager == InitImplement /\ [][NextFileManager]_vars

====
